---- MODULE Spec2Model ----
(***************************************************************************)
(* A model of the netops probing and monitoring engine:                    *)
(*   - the probe worker of src/tools/mtr.rs and the start/stop operations  *)
(*     of src/app.rs that drive it,                                        *)
(*   - the Hop Aggregator and the other folds of App::tick.                *)
(* Durations are whole milliseconds.  A crossbeam channel is a sequence of *)
(* messages in flight; its receiver is alive while App holds it in the     *)
(* matching *_rx field, its sender is alive until the worker thread that   *)
(* owns it has ended.                                                      *)
(***************************************************************************)
EXTENDS Integers, Sequences, FiniteSets, TLC

\* ------------------------------------------------------------------------
\* Bounds of the model
\* ------------------------------------------------------------------------
\* Each specification bounds a run by the number of probe workers start_mtr
\* may spawn and by the number of ProbeResults one trace session may deliver
\* before every further probe fails at socket creation (which emits nothing).
\* SpecFold: one trace session, every kind of result
FoldStarts == 1
FoldResultsMax == 3
\* SpecLife: restarts of the trace, one round-trip time
LifeStarts == 2
LifeResultsMax == 1
\* SpecSniff: the capture workers started, the frames they may count and
\* the ticks that may change a rate history
SniffStarts == 1
SniffFramesMax == 1
SniffSamplesMax == 1
\* SpecDash: the snapshots the connections monitor sends and the pings of
\* the dashboard ping
DashSnapshotsMax == 2
DashPingsMax == 1
\* SpecHist: the ping sessions or traces of a run, and the results of one:
\* one more than the largest capacity
HistStarts == 1
HistPingsMax == 101
HistProbesMax == 101
\* SpecExit: the ping sessions of the user, the results one ping task may
\* deliver, the frames the capture worker may count and the snapshots the
\* connections monitor may deliver
ExitStarts == 1
ExitPingsMax == 1
ExitFramesMax == 1
ExitSnapshotsMax == 1
\* SpecLog: frames captured before the first state, the frame after which
\* every read fails, and rate samples taken
LogCaptured == 999
LogFramesMax == 1002
LogSamplesMax == 2
\* SpecCount: the ping sessions of the user, the results a ping task
\* started in the run may deliver, the results the long ping has delivered
\* before the first state, and the results it may deliver in all
CountStarts == 2
CountPingsMax == 3
LongPingSent == 65534
LongPingsMax == 65537
\* SpecDns: lookups started
DnsStarts == 4

\* ------------------------------------------------------------------------
\* Program constants
\* ------------------------------------------------------------------------
HOP_HISTORY_CAP == 100
HISTORY_CAP == 100
SNIFFER_LOG_CAP == 1000
PING_LOG_CAP == 50
PING_CHANNEL_CAP == 100
SEQ_MODULUS == 65536
BEST_INIT == 9999
\* stand-in for Duration::MAX, the rtt of a probe that got no reply
DURATION_MAX == 2147483647

\* ------------------------------------------------------------------------
\* Input sets
\* ------------------------------------------------------------------------
\* round-trip times a reply may take, in ms (the read timeout caps them at 1 s)
RttSet == {10, 20, 30}
\* addresses a reply may come from
TargetIp == "target"
Responders == {"router", TargetIp}
\* what the user may have typed into mtr_input when Enter is pressed:
\*   text_empty - the input string is empty
\*   host       - the last non-flag word: "" (none), "good" (resolves to
\*                TargetIp) or "bad" (neither resolves nor parses)
\*   count      - {} without "-c", {c} with "-c c"
\*   max_hops   - the "-m" value (default 30)
MtrInputs ==
    { [text_empty |-> TRUE,  host |-> "",     count |-> {},  max_hops |-> 30],
      [text_empty |-> FALSE, host |-> "good", count |-> {},  max_hops |-> 2],
      [text_empty |-> FALSE, host |-> "good", count |-> {1}, max_hops |-> 1],
      [text_empty |-> FALSE, host |-> "good", count |-> {0}, max_hops |-> 2],
      [text_empty |-> FALSE, host |-> "",     count |-> {1}, max_hops |-> 30],
      [text_empty |-> FALSE, host |-> "bad",  count |-> {},  max_hops |-> 30] }
\* SpecFold: a trace of two hops without a cycle limit, every reply from a
\* router on the path
FoldInputs == { i \in MtrInputs : i.host = "good" /\ i.count = {} }
FoldNet == [from |-> {"router"}, rtts |-> RttSet, lossy |-> TRUE]
\* SpecLife: every kind of input, replies from a router or from the target
LifeInputs == MtrInputs
LifeNet == [from |-> Responders, rtts |-> {10}, lossy |-> TRUE]

\* What the user may have typed into the ping box: as MtrInputs, without
\* max_hops.
PingInputs ==
    { [text_empty |-> TRUE,  host |-> "",     count |-> {}],
      [text_empty |-> FALSE, host |-> "good", count |-> {}],
      [text_empty |-> FALSE, host |-> "good", count |-> {2}],
      [text_empty |-> FALSE, host |-> "good", count |-> {0}],
      [text_empty |-> FALSE, host |-> "good", count |-> {SEQ_MODULUS}],
      [text_empty |-> FALSE, host |-> "",     count |-> {1}],
      [text_empty |-> FALSE, host |-> "bad",  count |-> {}] }
\* the dashboard pings "1.1.1.1"
DashboardPing == [text_empty |-> FALSE, host |-> "good", count |-> {}]

\* ------------------------------------------------------------------------
\* State
\* ------------------------------------------------------------------------
VARIABLES
    mtr_active,       \* App.mtr_active
    mtr_rx,           \* App.mtr_rx: 0 for None, else the id of the channel
    mtr_hops,         \* App.mtr_hops: sequence of HopStats
    mtr_should_stop,  \* MtrTask.should_stop, shared by every probe worker
    mtr_workers,      \* the probe worker threads spawned so far, by channel id
    mtr_chan,         \* mtr_chan[id]: ProbeResults in flight on channel id
    mtr_disconnects,  \* how many ticks have got Disconnected from the
                      \* receiver now held in mtr_rx
    sniffer,          \* App.sniffer: should_stop and the nine shared counters
    sniffer_active,   \* App.sniffer_active
    sniffer_rx,       \* App.sniffer_rx: 0 for None, else the id of the channel
    sniffer_packets,  \* App.sniffer_packets, the packet log
    snif_workers,     \* the capture worker threads spawned so far, by channel id
    snif_chan,        \* snif_chan[id]: PacketSummaries in flight on channel id
    snif_disconnects, \* as mtr_disconnects, for sniffer_rx
    snif_frames,      \* the frames rx.next() has handed to capture workers
    traffic_history, rx_history, tx_history,
    last_packet_count, last_rx_count, last_tx_count,
    wan_rx_history, wan_tx_history, lan_rx_history, lan_tx_history,
    last_wan_rx_bytes, last_wan_tx_bytes, last_lan_rx_bytes, last_lan_tx_bytes,
    rate_samples,     \* how many ticks have changed a rate history
    dns,              \* the DNS lookups: rx (App.dns_rx: 0 for None, else the
                      \* id of the channel), result (App.dns_result: lookup 0
                      \* for None, else the lookup and its outcome), tasks
                      \* (the lookup tasks spawned so far, by channel id),
                      \* chan (chan[id]: the result in flight on channel id)
                      \* and stored (stored[id]: how many results of lookup
                      \* id have been put into dns_result)
    is_pinging,       \* App.is_pinging
    ping_rx,          \* App.ping_rx: 0 for None, else the id of the channel
    ping_history,     \* App.ping_history, the ping log
    ping_rtt_history, \* App.ping_rtt_history
    ping_workers,     \* the PingTasks spawned so far, by channel id
    ping_chan,        \* ping_chan[id]: results in flight on channel id
    db_ping_rx,       \* App.db_ping_rx: 0 for None, else the id of the channel
    db_ping_history,  \* App.db_ping_history
    db_jitter_history, \* App.db_jitter_history
    interfaces,       \* App.interfaces: how many interfaces were found
    geoip_reader,     \* App.geoip_reader: TRUE for Some(reader)
    connections_rx,   \* App.connections_rx: 0 for None, 1 for the receiver
    conn_chan,        \* the snapshots in flight from the ConnectionsTask
    conn_snapshots,   \* how many snapshots the ConnectionsTask has sent
    conn_task,        \* the ConnectionsTask thread: where it is and how many
                      \* of its sends have returned an error
    active_connections,       \* App.active_connections: address -> info
    connection_count_history, \* App.connection_count_history
    geo_lookups       \* the addresses lookup_info has been called with

mtrVars == <<mtr_active, mtr_rx, mtr_hops, mtr_should_stop, mtr_workers,
             mtr_chan, mtr_disconnects>>

snifVars == <<sniffer, sniffer_active, sniffer_rx, sniffer_packets,
              snif_workers, snif_chan, snif_disconnects, snif_frames>>

rateVars == <<traffic_history, rx_history, tx_history,
              last_packet_count, last_rx_count, last_tx_count,
              wan_rx_history, wan_tx_history, lan_rx_history, lan_tx_history,
              last_wan_rx_bytes, last_wan_tx_bytes, last_lan_rx_bytes,
              last_lan_tx_bytes>>

pingVars == <<is_pinging, ping_rx, ping_history, ping_rtt_history,
              ping_workers, ping_chan, db_ping_rx, db_ping_history,
              db_jitter_history>>

connVars == <<interfaces, geoip_reader, connections_rx, conn_chan,
              conn_snapshots, conn_task, active_connections,
              connection_count_history, geo_lookups>>

vars == <<mtrVars, snifVars, rateVars, rate_samples, dns, pingVars, connVars>>

\* ------------------------------------------------------------------------
\* Helpers
\* ------------------------------------------------------------------------
Min2(a, b) == IF a < b THEN a ELSE b

\* push_back followed by "if len > cap { pop_front }"
PushBackDropNewest(buf, v, cap) ==
    IF Len(buf) + 1 > cap THEN buf ELSE Append(buf, v)
PushBack(buf, v, cap) ==
    LET pushed == Append(buf, v)
    IN  IF Len(pushed) > cap THEN Tail(pushed) ELSE pushed

\* ------------------------------------------------------------------------
\* Text (Rust strings are sequences of one-character strings)
\* ------------------------------------------------------------------------
UpperChars == <<"A", "B", "C", "D", "E", "F", "G", "H", "I", "J", "K", "L", "M",
                "N", "O", "P", "Q", "R", "S", "T", "U", "V", "W", "X", "Y", "Z">>
LowerChars == <<"a", "b", "c", "d", "e", "f", "g", "h", "i", "j", "k", "l", "m",
                "n", "o", "p", "q", "r", "s", "t", "u", "v", "w", "x", "y", "z">>
DigitChars == <<"0", "1", "2", "3", "4", "5", "6", "7", "8", "9">>

\* str::to_lowercase on ASCII text
ToLowercaseIdentity(str) == str
ToLowercase(str) ==
    [i \in 1..Len(str) |->
        IF \E k \in 1..26 : UpperChars[k] = str[i]
        THEN LowerChars[CHOOSE k \in 1..26 : UpperChars[k] = str[i]]
        ELSE str[i]]

\* str::trim: strip leading and trailing white space
IsSpace(c) == c \in {" ", "\t"}
RECURSIVE TrimStart(_)
TrimStart(str) ==
    IF str # <<>> /\ IsSpace(Head(str)) THEN TrimStart(Tail(str)) ELSE str
RECURSIVE TrimEnd(_)
TrimEnd(str) ==
    IF str # <<>> /\ IsSpace(str[Len(str)])
    THEN TrimEnd(SubSeq(str, 1, Len(str) - 1)) ELSE str
Trim(str) == TrimEnd(TrimStart(str))

\* str::contains: pat occurs in str as a contiguous run
Contains(str, pat) ==
    \E i \in 0..(Len(str) - Len(pat)) : SubSeq(str, i + 1, i + Len(pat)) = pat

\* format!("{}", n) of an unsigned integer
RECURSIVE Decimal(_)
Decimal(n) ==
    IF n < 10 THEN <<DigitChars[n + 1]>>
    ELSE Decimal(n \div 10) \o <<DigitChars[(n % 10) + 1]>>

\* str::replace of one character by another
ReplaceChar(str, from, to) ==
    [i \in 1..Len(str) |-> IF str[i] = from THEN to ELSE str[i]]

\* str::rsplitn(2, ch): the text after the last ch, then the text before
\* it; the whole text alone when ch does not occur
RSplitN2(str, ch) ==
    IF \E i \in 1..Len(str) : str[i] = ch
    THEN LET last == CHOOSE i \in 1..Len(str) :
                        /\ str[i] = ch
                        /\ \A j \in (i + 1)..Len(str) : str[j] # ch
         IN  << SubSeq(str, last + 1, Len(str)), SubSeq(str, 1, last - 1) >>
    ELSE << str >>

\* str::split(ch)
RECURSIVE Split(_, _)
Split(str, ch) ==
    IF \E i \in 1..Len(str) : str[i] = ch
    THEN LET first == CHOOSE i \in 1..Len(str) :
                         /\ str[i] = ch
                         /\ \A j \in 1..(i - 1) : str[j] # ch
         IN  << SubSeq(str, 1, first - 1) >> \o Split(SubSeq(str, first + 1, Len(str)), ch)
    ELSE << str >>

DigitValue(c) == (CHOOSE k \in 1..10 : DigitChars[k] = c) - 1
IsDigit(c) == \E k \in 1..10 : DigitChars[k] = c

RECURSIVE DigitsValue(_)
DigitsValue(str) ==
    IF str = <<>> THEN 0
    ELSE 10 * DigitsValue(SubSeq(str, 1, Len(str) - 1)) + DigitValue(str[Len(str)])

\* one octet of Ipv4Addr::from_str: one to three digits, no leading zero,
\* at most 255; the empty set when it does not parse
ParseOctet(str) ==
    IF /\ Len(str) \in 1..3
       /\ \A i \in 1..Len(str) : IsDigit(str[i])
       /\ (Len(str) > 1 => str[1] # "0")
       /\ DigitsValue(str) <= 255
    THEN { DigitsValue(str) }
    ELSE {}

\* ------------------------------------------------------------------------
\* Addresses, the capture interface and the frames it may see
\* ------------------------------------------------------------------------
V4(a, b, c, d) == [v |-> 4, o |-> <<a, b, c, d>>]
V6(a, b, c, d) == [v |-> 6, o |-> <<a, b, c, d>>]
\* the two IPv6 addresses of the model, by first and last hextets
LinkLocal6 == V6(65152, 0, 0, 1)
Remote6 == V6(8193, 3512, 0, 2)

\* IpAddr::to_string
AddrText(ip) ==
    IF ip.v = 4
    THEN Decimal(ip.o[1]) \o <<".">> \o Decimal(ip.o[2]) \o <<".">>
         \o Decimal(ip.o[3]) \o <<".">> \o Decimal(ip.o[4])
    ELSE IF ip = LinkLocal6 THEN <<"f", "e", "8", "0", ":", ":", "1">>
    ELSE <<"2", "0", "0", "1", ":", "d", "b", "8", ":", ":", "2">>

\* str::parse::<IpAddr>() of a text without colons: four octets between
\* dots; the empty set when it does not parse
ParseIp(str) ==
    LET parts == Split(str, ".")
    IN  IF Len(parts) = 4 /\ \A i \in 1..4 : ParseOctet(parts[i]) # {}
        THEN { V4(CHOOSE n \in ParseOctet(parts[1]) : TRUE,
                  CHOOSE n \in ParseOctet(parts[2]) : TRUE,
                  CHOOSE n \in ParseOctet(parts[3]) : TRUE,
                  CHOOSE n \in ParseOctet(parts[4]) : TRUE) }
        ELSE {}

IsLoopback(ip) == ip.v = 4 /\ ip.o[1] = 127
IsUnspecified(ip) == ip.v = 4 /\ ip.o = <<0, 0, 0, 0>>

\* interface.ips of the capture interface: (address, mask) pairs
IfaceIps ==
    << [ip |-> V4(10, 0, 0, 2),    mask |-> V4(255, 255, 255, 0)],
       [ip |-> V4(192, 168, 1, 7), mask |-> V4(255, 255, 255, 240)],
       [ip |-> LinkLocal6,         mask |-> V6(65535, 65535, 0, 0)] >>

\* local_ips and networks as the worker collects them
LocalIps == { IfaceIps[i].ip : i \in 1..Len(IfaceIps) }

\* a captured frame: ether (EtherType or "Runt" when shorter than an
\* Ethernet header), len (bytes on the wire), ip_ok (the IP header parses),
\* proto, src, dst, l4_ok (the transport header parses), the ports a (source) and b
\* (destination) or the ICMP type and code, c (sequence number or UDP
\* length) and ip_len (total length or payload length of the IP header)
Frame(ether, len, ip_ok, proto, src, dst, l4_ok, a, b, c, ip_len) ==
    [ether |-> ether, len |-> len, ip_ok |-> ip_ok, proto |-> proto,
     src |-> src, dst |-> dst, l4_ok |-> l4_ok, a |-> a, b |-> b, c |-> c,
     ip_len |-> ip_len]

NoFrame == Frame("None", 0, FALSE, "Other", V4(0, 0, 0, 0), V4(0, 0, 0, 0), FALSE, 0, 0, 0, 0)

Frames ==
    { \* TCP from a host of the first subnet to the first local address
      Frame("Ipv4", 74, TRUE, "Tcp", V4(10, 0, 0, 9), V4(10, 0, 0, 2), TRUE, 443, 5000, 7, 60),
      \* UDP from the internet to the first local address
      Frame("Ipv4", 90, TRUE, "Udp", V4(8, 8, 8, 8), V4(10, 0, 0, 2), TRUE, 53, 5353, 56, 76),
      \* TCP from the first local address to the internet, truncated TCP header
      Frame("Ipv4", 54, TRUE, "Tcp", V4(10, 0, 0, 2), V4(8, 8, 8, 8), FALSE, 0, 0, 0, 40),
      \* ICMP echo from the second local address into its /28
      Frame("Ipv4", 98, TRUE, "Icmp", V4(192, 168, 1, 7), V4(192, 168, 1, 12), TRUE, 8, 0, 0, 84),
      \* from a host of the first subnet to the second local address
      Frame("Ipv4", 60, TRUE, "Other", V4(10, 0, 0, 9), V4(192, 168, 1, 7), TRUE, 0, 0, 0, 46),
      \* from just outside the /28 to the second local address
      Frame("Ipv4", 66, TRUE, "Udp", V4(192, 168, 1, 200), V4(192, 168, 1, 7), TRUE, 53, 53, 32, 52),
      \* a broadcast between two other hosts of the first subnet
      Frame("Ipv4", 62, TRUE, "Udp", V4(10, 0, 0, 9), V4(10, 0, 0, 255), TRUE, 137, 137, 28, 48),
      \* IPv6 to the link-local address
      Frame("Ipv6", 86, TRUE, "Icmpv6", Remote6, LinkLocal6, TRUE, 0, 0, 0, 32),
      \* ARP
      Frame("Arp", 42, FALSE, "Other", V4(0, 0, 0, 0), V4(0, 0, 0, 0), FALSE, 0, 0, 0, 0),
      \* IPv4 ethertype with a payload too short for an IPv4 header
      Frame("Ipv4", 20, FALSE, "Other", V4(0, 0, 0, 0), V4(0, 0, 0, 0), FALSE, 0, 0, 0, 0) }

\* a frame of 10 bytes, shorter than the 14 bytes of an Ethernet header
RuntFrame ==
    Frame("Runt", 10, FALSE, "Other", V4(0, 0, 0, 0), V4(0, 0, 0, 0), FALSE, 0, 0, 0, 0)

\* what the user may have typed into the filter box
Filters ==
    { <<>>,
      <<"T", "c", "P">>,
      <<"t", "c", "p", " ">>,
      <<" ">>,
      <<"5", "3">>,
      <<"z", "z">> }

\* ------------------------------------------------------------------------
\* Capture Engine: per-frame classification (Sniffer::start, parse_packet)
\* ------------------------------------------------------------------------
\* x & y on one octet
RECURSIVE BitAnd(_, _)
BitAnd(x, y) ==
    IF x = 0 \/ y = 0 THEN 0
    ELSE ((x % 2) * (y % 2)) + 2 * BitAnd(x \div 2, y \div 2)

\* (addr & mask) == (net & mask) on the u32 of three IPv4 addresses
SameMasked(addr, net, mask) ==
    \A i \in 1..4 : BitAnd(addr.o[i], mask.o[i]) = BitAnd(net.o[i], mask.o[i])

\* the loop over networks: some pair of IPv4 address and mask puts addr in
\* its subnet
InNetworksFirstPairOnly(addr) ==
    /\ addr.v = 4 /\ IfaceIps[1].ip.v = 4 /\ IfaceIps[1].mask.v = 4
    /\ SameMasked(addr, IfaceIps[1].ip, IfaceIps[1].mask)
InNetworks(addr) ==
    \E i \in 1..Len(IfaceIps) :
        /\ addr.v = 4 /\ IfaceIps[i].ip.v = 4 /\ IfaceIps[i].mask.v = 4
        /\ SameMasked(addr, IfaceIps[i].ip, IfaceIps[i].mask)

\* is_inbound and is_lan of a frame ("Direction & LAN/WAN Detection")
DirectionChecksDestination(f) ==
    IF f.ether = "Ipv4" /\ f.ip_ok /\ f.dst \in LocalIps
    THEN [is_inbound |-> TRUE, is_lan |-> InNetworks(f.dst)]
    ELSE IF f.ether = "Ipv4" /\ f.ip_ok /\ f.src \in LocalIps
    THEN [is_inbound |-> FALSE, is_lan |-> InNetworks(f.dst)]
    ELSE [is_inbound |-> FALSE, is_lan |-> FALSE]
Direction(f) ==
    IF f.ether = "Ipv4" /\ f.ip_ok
    THEN IF f.dst \in LocalIps
         THEN [is_inbound |-> TRUE, is_lan |-> InNetworks(f.src)]
         ELSE IF f.src \in LocalIps
         THEN [is_inbound |-> FALSE, is_lan |-> InNetworks(f.dst)]
         ELSE [is_inbound |-> FALSE, is_lan |-> FALSE]
    ELSE IF f.ether = "Ipv6" /\ f.ip_ok
    THEN [is_inbound |-> f.dst \in LocalIps, is_lan |-> FALSE]
    ELSE [is_inbound |-> FALSE, is_lan |-> FALSE]

\* the protocol counters, bumped for IPv4 frames only
CountProtocol(c, f) ==
    IF f.ether = "Ipv4" /\ f.ip_ok /\ f.proto = "Tcp"
    THEN [c EXCEPT !.tcp_packets = @ + 1]
    ELSE IF f.ether = "Ipv4" /\ f.ip_ok /\ f.proto = "Udp"
    THEN [c EXCEPT !.udp_packets = @ + 1]
    ELSE c

\* the packet and byte counters chosen by is_inbound and is_lan
CountDirectionLanAlsoWan(c, len, is_inbound, is_lan) ==
    IF is_inbound
    THEN IF is_lan
         THEN [c EXCEPT !.in_packets = @ + 1, !.lan_in_bytes = @ + len,
                        !.wan_in_bytes = @ + len]
         ELSE [c EXCEPT !.in_packets = @ + 1, !.wan_in_bytes = @ + len]
    ELSE IF is_lan
         THEN [c EXCEPT !.out_packets = @ + 1, !.lan_out_bytes = @ + len,
                        !.wan_out_bytes = @ + len]
         ELSE [c EXCEPT !.out_packets = @ + 1, !.wan_out_bytes = @ + len]
CountDirection(c, len, is_inbound, is_lan) ==
    IF is_inbound
    THEN IF is_lan
         THEN [c EXCEPT !.in_packets = @ + 1, !.lan_in_bytes = @ + len]
         ELSE [c EXCEPT !.in_packets = @ + 1, !.wan_in_bytes = @ + len]
    ELSE IF is_lan
         THEN [c EXCEPT !.out_packets = @ + 1, !.lan_out_bytes = @ + len]
         ELSE [c EXCEPT !.out_packets = @ + 1, !.wan_out_bytes = @ + len]

Summary(source, destination, protocol, length, info) ==
    [time |-> "hh:mm:ss", source |-> source, destination |-> destination,
     protocol |-> protocol, length |-> length, info |-> info]

\* parse_packet: the set holding the summary, empty for None
ParsePacket(f) ==
    IF f.ether = "Ipv4" /\ f.ip_ok
    THEN LET detail ==
                 IF f.proto = "Tcp"
                 THEN [label |-> <<"T", "C", "P">>,
                       info |-> IF f.l4_ok
                                THEN Decimal(f.a) \o <<" ", "-", ">", " ">> \o Decimal(f.b)
                                     \o <<" ", "[", "S", "e", "q", "=">> \o Decimal(f.c) \o <<"]">>
                                ELSE <<"M", "a", "l", "f", "o", "r", "m", "e", "d", " ", "T", "C", "P">>]
                 ELSE IF f.proto = "Udp"
                 THEN [label |-> <<"U", "D", "P">>,
                       info |-> IF f.l4_ok
                                THEN Decimal(f.a) \o <<" ", "-", ">", " ">> \o Decimal(f.b)
                                     \o <<" ", "[", "L", "e", "n", "=">> \o Decimal(f.c) \o <<"]">>
                                ELSE <<"M", "a", "l", "f", "o", "r", "m", "e", "d", " ", "U", "D", "P">>]
                 ELSE IF f.proto = "Icmp"
                 THEN [label |-> <<"I", "C", "M", "P">>,
                       info |-> IF f.l4_ok
                                THEN <<"T", "y", "p", "e", "=", "I", "c", "m", "p", "T", "y", "p", "e", "(">> \o Decimal(f.a)
                                     \o <<")", " ", "C", "o", "d", "e", "=", "I", "c", "m", "p", "C", "o", "d", "e", "(">> \o Decimal(f.b) \o <<")">>
                                ELSE <<"M", "a", "l", "f", "o", "r", "m", "e", "d", " ", "I", "C", "M", "P">>]
                 ELSE [label |-> <<"I", "P", "v", "4">>, info |-> <<"U", "n", "k", "n", "o", "w", "n", " ", "L", "4">>]
         IN  { Summary(AddrText(f.src), AddrText(f.dst), detail.label,
                       Decimal(f.ip_len), detail.info) }
    ELSE IF f.ether = "Ipv6" /\ f.ip_ok
    THEN LET detail ==
                 IF f.proto = "Tcp" THEN [label |-> <<"T", "C", "P">>, info |-> <<"T", "C", "P", " ", "(", "I", "P", "v", "6", ")">>]
                 ELSE IF f.proto = "Udp" THEN [label |-> <<"U", "D", "P">>, info |-> <<"U", "D", "P", " ", "(", "I", "P", "v", "6", ")">>]
                 ELSE IF f.proto = "Icmpv6" THEN [label |-> <<"I", "C", "M", "P", "v", "6">>, info |-> <<"I", "C", "M", "P", "v", "6">>]
                 ELSE [label |-> <<"I", "P", "v", "6">>, info |-> <<"I", "P", "v", "6">>]
         IN  { Summary(AddrText(f.src), AddrText(f.dst), detail.label,
                       Decimal(f.ip_len), detail.info) }
    ELSE {}

\* the summary sent when the capture channel cannot be opened
ErrorSummary ==
    [time |-> "Error", source |-> <<"-">>, destination |-> <<"-">>,
     protocol |-> <<"E", "R", "R">>, length |-> <<"0">>, info |-> <<"F", "a", "i", "l", "e", "d", " ", "t", "o", " ", "c", "r", "e", "a", "t", "e", " ", "c", "h", "a", "n", "n", "e", "l", ":", " ">>]

\* let filter = filter.trim().to_lowercase()
NormalizeFilterNoTrim(raw) == ToLowercase(raw)
NormalizeFilter(raw) == ToLowercase(Trim(raw))

\* "Filter Logic": matches, for the normalized filter
FilterMatchesProtocolOnly(filter, sm) ==
    \/ filter = <<>>
    \/ Contains(ToLowercase(sm.protocol), filter)
FilterMatches(filter, sm) ==
    \/ filter = <<>>
    \/ Contains(ToLowercase(sm.source), filter)
    \/ Contains(ToLowercase(sm.destination), filter)
    \/ Contains(ToLowercase(sm.protocol), filter)
    \/ Contains(ToLowercase(sm.info), filter)

\* ------------------------------------------------------------------------
\* Hop Aggregator (App::tick, the mtr_rx block)
\* ------------------------------------------------------------------------
NewHop(ttl) ==
    [ttl |-> ttl, host |-> "???", sent |-> 0, recv |-> 0, last |-> 0,
     best |-> BEST_INIT, worst |-> 0, avg |-> 0,
     loss |-> [num |-> 0, den |-> 1], history |-> <<>>, jitter |-> 0]

\* mtr_hops.resize(res.ttl, HopStats { ttl: res.ttl, .. }) when too short
ResizeHops(hops, ttl) ==
    IF Len(hops) < ttl
    THEN hops \o [i \in 1..(ttl - Len(hops)) |-> NewHop(ttl)]
    ELSE hops

\* hop.loss = ((sent - recv) as f64 / sent as f64) * 100.0, kept as the
\* exact fraction num/den of which the percentage is 100 times the value
HopLoss(sent, recv) == [num |-> sent - recv, den |-> sent]

\* hop.avg = ((hop.avg * (hop.recv - 1)) + time) / hop.recv
HopAvgUnweighted(avg, recv, time) == (avg + time) \div recv
HopAvgRoundUp(avg, recv, time) == ((avg * (recv - 1)) + time + recv - 1) \div recv
HopAvg(avg, recv, time) == ((avg * (recv - 1)) + time) \div recv

\* the smoothed jitter: |time - last| on the first success, else the
\* running average of the absolute successive differences
HopJitterUnsmoothed(jitter, recv, time, last) ==
    IF time > last THEN time - last ELSE last - time
HopJitter(jitter, recv, time, last) ==
    LET d == IF time > last THEN time - last ELSE last - time
    IN  IF recv > 1 THEN ((jitter * (recv - 1)) + d) \div recv ELSE d

\* the body of "if let Some(hop) = self.mtr_hops.get_mut(idx)"
FoldHopCountsRecvAlways(hop, res) ==
    [hop EXCEPT !.sent = IF res.successful THEN hop.sent + 1 ELSE hop.sent,
                !.recv = hop.recv + 1,
                !.loss = HopLoss(hop.sent + 1, hop.recv + 1)]
FoldHopTimeoutClearsHost(hop, res) ==
    LET sent1 == hop.sent + 1
        recv1 == hop.recv + 1
        time  == res.rtt
        seen  == IF res.successful
                 THEN [hop EXCEPT
                         !.recv    = recv1,
                         !.host    = IF res.host = "none" THEN "???" ELSE res.host,
                         !.jitter  = HopJitter(hop.jitter, recv1, time, hop.last),
                         !.last    = time,
                         !.best    = IF time < hop.best THEN time ELSE hop.best,
                         !.worst   = IF time > hop.worst THEN time ELSE hop.worst,
                         !.avg     = HopAvg(hop.avg, recv1, time),
                         !.history = PushBack(hop.history, time, HOP_HISTORY_CAP)]
                 ELSE [hop EXCEPT !.host = "???"]
    IN  [seen EXCEPT !.sent = sent1, !.loss = HopLoss(sent1, seen.recv)]
FoldHop(hop, res) ==
    LET sent1 == hop.sent + 1
        recv1 == hop.recv + 1
        time  == res.rtt
        seen  == IF res.successful
                 THEN [hop EXCEPT
                         !.recv    = recv1,
                         !.host    = IF res.host = "none" THEN "???" ELSE res.host,
                         !.jitter  = HopJitter(hop.jitter, recv1, time, hop.last),
                         !.last    = time,
                         !.best    = IF time < hop.best THEN time ELSE hop.best,
                         !.worst   = IF time > hop.worst THEN time ELSE hop.worst,
                         !.avg     = HopAvg(hop.avg, recv1, time),
                         !.history = PushBack(hop.history, time, HOP_HISTORY_CAP)]
                 ELSE hop
    IN  [seen EXCEPT !.sent = sent1, !.loss = HopLoss(sent1, seen.recv)]

\* one iteration of "while let Ok(res) = rx.try_recv()"
FoldResultIntoLastHop(hops, res) ==
    LET grown == ResizeHops(hops, res.ttl)
    IN  [grown EXCEPT ![Len(grown)] = FoldHop(grown[Len(grown)], res)]
FoldResult(hops, res) ==
    LET grown == ResizeHops(hops, res.ttl)
    IN  [grown EXCEPT ![res.ttl] = FoldHop(grown[res.ttl], res)]

RECURSIVE FoldResults(_, _)
FoldResults(hops, msgs) ==
    IF msgs = <<>> THEN hops
    ELSE FoldResults(FoldResult(hops, Head(msgs)), Tail(msgs))

\* the number of results folded into the hops of the current session
RECURSIVE TotalSent(_)
TotalSent(hops) ==
    IF hops = <<>> THEN 0 ELSE Head(hops).sent + TotalSent(Tail(hops))

\* try_recv on an empty channel: Disconnected once the sender is dropped,
\* which happens when the worker thread that owns it ends
MtrSenderDropped(id) == mtr_workers[id].pc = "done"

\* the mtr_rx block of tick: drain to exhaustion, stop at the first
\* Empty or Disconnected; neither changes mtr_rx or mtr_active
TickMtr ==
    IF mtr_rx = 0
    THEN UNCHANGED <<mtr_hops, mtr_chan, mtr_disconnects>>
    ELSE /\ mtr_hops' = FoldResults(mtr_hops, mtr_chan[mtr_rx])
         /\ mtr_chan' = [mtr_chan EXCEPT ![mtr_rx] = <<>>]
         /\ mtr_disconnects' =
                IF MtrSenderDropped(mtr_rx)
                THEN Min2(mtr_disconnects + 1, 2)
                ELSE mtr_disconnects

\* ------------------------------------------------------------------------
\* App::tick: the capture log and the rate histories
\* ------------------------------------------------------------------------
RECURSIVE PushAll(_, _, _)
PushAll(buf, vals, cap) ==
    IF vals = <<>> THEN buf
    ELSE PushAll(PushBack(buf, Head(vals), cap), Tail(vals), cap)

SnifSenderDropped(id) == snif_workers[id].pc = "done"

\* the sniffer_rx block: drain into the packet log, stop at the first
\* Empty or Disconnected; neither changes sniffer_rx or sniffer_active
TickSnifferEvictsAtCap ==
    IF sniffer_rx = 0
    THEN UNCHANGED <<sniffer_packets, snif_chan, snif_disconnects>>
    ELSE /\ sniffer_packets' =
                PushAll(sniffer_packets, snif_chan[sniffer_rx], SNIFFER_LOG_CAP - 1)
         /\ snif_chan' = [snif_chan EXCEPT ![sniffer_rx] = <<>>]
         /\ snif_disconnects' =
                IF SnifSenderDropped(sniffer_rx)
                THEN Min2(snif_disconnects + 1, 2)
                ELSE snif_disconnects
TickSniffer ==
    IF sniffer_rx = 0
    THEN UNCHANGED <<sniffer_packets, snif_chan, snif_disconnects>>
    ELSE /\ sniffer_packets' =
                PushAll(sniffer_packets, snif_chan[sniffer_rx], SNIFFER_LOG_CAP)
         /\ snif_chan' = [snif_chan EXCEPT ![sniffer_rx] = <<>>]
         /\ snif_disconnects' =
                IF SnifSenderDropped(sniffer_rx)
                THEN Min2(snif_disconnects + 1, 2)
                ELSE snif_disconnects

\* u64::saturating_sub
PlainSub(a, b) == a - b
SaturatingSub(a, b) == IF a >= b THEN a - b ELSE 0

\* "Update Traffic Graph (Total, Rx, Tx)"
TickTrafficKeepsLast ==
    /\ traffic_history' =
         PushBack(traffic_history,
                  SaturatingSub(sniffer.packet_count, last_packet_count), HISTORY_CAP)
    /\ rx_history' =
         PushBack(rx_history,
                  SaturatingSub(sniffer.in_packets, last_rx_count), HISTORY_CAP)
    /\ tx_history' =
         PushBack(tx_history,
                  SaturatingSub(sniffer.out_packets, last_tx_count), HISTORY_CAP)
    /\ last_packet_count' = last_packet_count
    /\ last_rx_count' = sniffer.in_packets
    /\ last_tx_count' = sniffer.out_packets
TickTraffic ==
    /\ traffic_history' =
         PushBack(traffic_history,
                  SaturatingSub(sniffer.packet_count, last_packet_count), HISTORY_CAP)
    /\ rx_history' =
         PushBack(rx_history,
                  SaturatingSub(sniffer.in_packets, last_rx_count), HISTORY_CAP)
    /\ tx_history' =
         PushBack(tx_history,
                  SaturatingSub(sniffer.out_packets, last_tx_count), HISTORY_CAP)
    /\ last_packet_count' = sniffer.packet_count
    /\ last_rx_count' = sniffer.in_packets
    /\ last_tx_count' = sniffer.out_packets

\* bytes as f64 * (8.0 / 1_000_000.0 / elapsed): the Mbps sample as the
\* exact fraction of bits over microseconds (elapsed is in ms)
Mbps(bytes, elapsed) == [num |-> bytes * 8, den |-> 1000 * elapsed]

\* "Update Bandwidth (Mbps)", skipped when no time has elapsed
TickBandwidth(elapsed) ==
    IF elapsed > 0
    THEN /\ wan_rx_history' =
              PushBack(wan_rx_history,
                       Mbps(SaturatingSub(sniffer.wan_in_bytes, last_wan_rx_bytes), elapsed),
                       HISTORY_CAP)
         /\ wan_tx_history' =
              PushBack(wan_tx_history,
                       Mbps(SaturatingSub(sniffer.wan_out_bytes, last_wan_tx_bytes), elapsed),
                       HISTORY_CAP)
         /\ lan_rx_history' =
              PushBack(lan_rx_history,
                       Mbps(SaturatingSub(sniffer.lan_in_bytes, last_lan_rx_bytes), elapsed),
                       HISTORY_CAP)
         /\ lan_tx_history' =
              PushBack(lan_tx_history,
                       Mbps(SaturatingSub(sniffer.lan_out_bytes, last_lan_tx_bytes), elapsed),
                       HISTORY_CAP)
         /\ last_wan_rx_bytes' = sniffer.wan_in_bytes
         /\ last_wan_tx_bytes' = sniffer.wan_out_bytes
         /\ last_lan_rx_bytes' = sniffer.lan_in_bytes
         /\ last_lan_tx_bytes' = sniffer.lan_out_bytes
    ELSE UNCHANGED <<wan_rx_history, wan_tx_history, lan_rx_history,
                     lan_tx_history, last_wan_rx_bytes, last_wan_tx_bytes,
                     last_lan_rx_bytes, last_lan_tx_bytes>>

\* ------------------------------------------------------------------------
\* Connections: the ConnectionsTask, the GeoIP reader and the
\* connections_rx block of App::tick
\* ------------------------------------------------------------------------
RawConnection(protocol, remote_addr) ==
    [protocol |-> protocol, remote_addr |-> remote_addr]

\* the snapshots netstat may give (protocol and foreign address columns)
Snapshots ==
    { << RawConnection("tcp4", <<"8", ".", "8", ".", "8", ".", "8", ".", "4", "4", "3">>),
         RawConnection("tcp4", <<"1", "2", "7", ".", "0", ".", "0", ".", "1", ".", "6", "3", "1">>),
         RawConnection("udp4", <<"*", ".", "*">>) >>,
      << RawConnection("tcp4", <<"8", ".", "8", ".", "8", ".", "8", ".", "4", "4", "3">>),
         RawConnection("udp4", <<"8", ".", "8", ".", "8", ".", "8", ".", "5", "3">>) >>,
      << RawConnection("tcp4", <<"1", ".", "1", ".", "1", ".", "1", ":", "5", "3">>),
         RawConnection("tcp4", <<"9", ".", "9", ".", "9", ".", "9", ".", "8", "5", "3">>),
         RawConnection("tcp4", <<"0", ".", "0", ".", "0", ".", "0", ".", "0">>) >>,
      << >> }

\* the ASN database: the addresses it knows, with number and organisation
AsnDb ==
    [ip \in {V4(8, 8, 8, 8), V4(1, 1, 1, 1)} |->
        IF ip = V4(8, 8, 8, 8)
        THEN [number |-> 15169, org |-> "GOOGLE"]
        ELSE [number |-> 13335, org |-> "CLOUDFLARENET"]]

\* get_location_from_org with the ASN fallback, for the organisations of
\* AsnDb (both United States), and get_ip_jitter; in tenths of a degree
GeoLocation(ip) ==
    << "Some", 380 + (ip.o[4] % 50) - 25, (0 - 970) + (ip.o[3] % 50) - 25 >>

\* reader.lookup_info(ip).unwrap_or((0, "Unknown", None))
LookupInfo(ip) ==
    IF ip \in DOMAIN AsnDb
    THEN [asn_num |-> AsnDb[ip].number, asn_org |-> AsnDb[ip].org,
          location |-> GeoLocation(ip)]
    ELSE [asn_num |-> 0, asn_org |-> "Unknown", location |-> <<"None">>]

\* asn_num, asn_org and location of a connection to ip, and whether
\* lookup_info was called for them
ResolveAlways(old, ip, reader) ==
    IF reader THEN [info |-> LookupInfo(ip), looked_up |-> TRUE]
    ELSE [info |-> [asn_num |-> 0, asn_org |-> "-", location |-> <<"None">>],
          looked_up |-> FALSE]
Resolve(old, ip, reader) ==
    IF ip \in DOMAIN old
    THEN [info |-> [asn_num |-> old[ip].asn_num, asn_org |-> old[ip].asn_org,
                    location |-> old[ip].location],
          looked_up |-> FALSE]
    ELSE IF reader THEN [info |-> LookupInfo(ip), looked_up |-> TRUE]
    ELSE [info |-> [asn_num |-> 0, asn_org |-> "-", location |-> <<"None">>],
          looked_up |-> FALSE]

\* the remote address of a connection: the set holding it, empty when the
\* text does not split, does not parse, or is loopback or unspecified
RemoteIp(c) ==
    LET parts == RSplitN2(ReplaceChar(c.remote_addr, ":", "."), ".")
    IN  IF Len(parts) = 2
        THEN { ip \in ParseIp(parts[2]) : ~IsLoopback(ip) /\ ~IsUnspecified(ip) }
        ELSE {}

\* "for c in conns": acc holds new_map and the lookups made so far
RECURSIVE FoldConns(_, _, _, _)
FoldConns(conns, old, reader, acc) ==
    IF conns = <<>> THEN acc
    ELSE LET c == Head(conns)
         IN  IF RemoteIp(c) = {}
             THEN FoldConns(Tail(conns), old, reader, acc)
             ELSE LET ip == CHOOSE x \in RemoteIp(c) : TRUE
                      r  == Resolve(old, ip, reader)
                      ci == [remote_ip |-> ip, asn_num |-> r.info.asn_num,
                             asn_org |-> r.info.asn_org, packet_count |-> 0,
                             protocol |-> c.protocol, location |-> r.info.location]
                  IN  FoldConns(Tail(conns), old, reader,
                        [map |-> [x \in DOMAIN acc.map \cup {ip} |->
                                     IF x = ip THEN ci ELSE acc.map[x]],
                         lookups |-> IF r.looked_up THEN Append(acc.lookups, ip)
                                     ELSE acc.lookups])

\* the connections_rx block: at most one snapshot per tick
TickConnectionsKeepsOldKeys ==
    IF connections_rx # 0 /\ conn_chan # <<>>
    THEN LET done == FoldConns(Head(conn_chan), active_connections, geoip_reader,
                               [map |-> active_connections, lookups |-> geo_lookups])
         IN  /\ conn_chan' = Tail(conn_chan)
             /\ active_connections' = done.map
             /\ geo_lookups' = done.lookups
             /\ connection_count_history' =
                    PushBack(connection_count_history,
                             Cardinality(DOMAIN done.map), HISTORY_CAP)
    ELSE UNCHANGED <<conn_chan, active_connections, geo_lookups,
                     connection_count_history>>
TickConnections ==
    IF connections_rx # 0 /\ conn_chan # <<>>
    THEN LET done == FoldConns(Head(conn_chan), active_connections, geoip_reader,
                               [map |-> <<>>, lookups |-> geo_lookups])
         IN  /\ conn_chan' = Tail(conn_chan)
             /\ active_connections' = done.map
             /\ geo_lookups' = done.lookups
             /\ connection_count_history' =
                    PushBack(connection_count_history,
                             Cardinality(DOMAIN done.map), HISTORY_CAP)
    ELSE UNCHANGED <<conn_chan, active_connections, geo_lookups,
                     connection_count_history>>

\* ConnectionsTask::run: one round of the loop that gets a netstat output
\* and sends its snapshot; a failed send leaves the loop.  (A round whose
\* netstat call fails sends nothing and changes nothing.)  Once `budget`
\* snapshots have been delivered every further netstat call fails.
ConnSnapshot(snap, budget) ==
    /\ conn_task.pc = "run"
    /\ IF connections_rx # 0
       THEN /\ conn_snapshots < budget
            /\ conn_chan' = Append(conn_chan, snap)
            /\ conn_snapshots' = conn_snapshots + 1
            /\ UNCHANGED conn_task
       ELSE /\ conn_task' = [pc |-> "done",
                             failed_sends |-> Min2(conn_task.failed_sends + 1, 2)]
            /\ UNCHANGED <<conn_chan, conn_snapshots>>
    /\ UNCHANGED <<interfaces, geoip_reader, connections_rx, active_connections,
                   connection_count_history, geo_lookups>>

\* ------------------------------------------------------------------------
\* App::tick: the ping log and the dashboard ping
\* ------------------------------------------------------------------------
\* a PingTask that has returned has dropped its sender
PingSenderDropped(id) == ping_workers[id].pc = "done"

\* result.time.as_millis() of the Ok results, in order
RECURSIVE OkTimes(_)
OkTimes(results) ==
    IF results = <<>> THEN <<>>
    ELSE IF Head(results).ok
         THEN <<Head(results).time>> \o OkTimes(Tail(results))
         ELSE OkTimes(Tail(results))

\* the ping_rx block: every queued result goes to the log, the time of
\* every Ok result to ping_rtt_history; Disconnected ends the session
TickPingDisconnectFirst ==
    IF ping_rx = 0
    THEN UNCHANGED <<ping_history, ping_rtt_history, is_pinging, ping_rx>>
    ELSE IF PingSenderDropped(ping_rx)
         THEN /\ is_pinging' = FALSE /\ ping_rx' = 0
              /\ UNCHANGED <<ping_history, ping_rtt_history>>
         ELSE /\ ping_history' =
                    PushAll(ping_history, ping_chan[ping_rx], PING_LOG_CAP)
              /\ ping_rtt_history' =
                    PushAll(ping_rtt_history, OkTimes(ping_chan[ping_rx]), HISTORY_CAP)
              /\ UNCHANGED <<is_pinging, ping_rx>>

TickPing ==
    IF ping_rx = 0
    THEN UNCHANGED <<ping_history, ping_rtt_history, is_pinging, ping_rx>>
    ELSE /\ ping_history' = PushAll(ping_history, ping_chan[ping_rx], PING_LOG_CAP)
         /\ ping_rtt_history' =
                PushAll(ping_rtt_history, OkTimes(ping_chan[ping_rx]), HISTORY_CAP)
         /\ IF PingSenderDropped(ping_rx)
            THEN is_pinging' = FALSE /\ ping_rx' = 0
            ELSE UNCHANGED <<is_pinging, ping_rx>>

\* one Ok result of the dashboard ping: the jitter against the newest
\* sample, then the sample itself
AbsDiff(a, b) == IF a > b THEN a - b ELSE b - a
RECURSIVE FoldDbPing(_, _)
FoldDbPing(h, times) ==
    IF times = <<>> THEN h
    ELSE LET time == Head(times)
             prev_time == IF h.ping = <<>> THEN 0 ELSE h.ping[Len(h.ping)]
         IN  FoldDbPing(
                 [jitter |-> PushBack(h.jitter, AbsDiff(time, prev_time), HISTORY_CAP),
                  ping |-> PushBack(h.ping, time, HISTORY_CAP)],
                 Tail(times))

\* the db_ping_rx block
TickDbPing ==
    IF db_ping_rx = 0
    THEN UNCHANGED <<db_ping_history, db_jitter_history>>
    ELSE LET h == FoldDbPing([jitter |-> db_jitter_history, ping |-> db_ping_history],
                             OkTimes(ping_chan[db_ping_rx]))
         IN  /\ db_ping_history' = h.ping
             /\ db_jitter_history' = h.jitter

\* ------------------------------------------------------------------------
\* DNS lookups (App::start_dns_lookup, the spawned task, the dns_rx block)
\* ------------------------------------------------------------------------
\* App::new: no lookup yet
InitDns ==
    dns = [rx |-> 0, result |-> [lookup |-> 0, ok |-> FALSE], tasks |-> <<>>, chan |-> <<>>,
           stored |-> <<>>]

\* Enter on the DNS screen.  text_empty: dns_input is empty.  A channel of
\* capacity 1 is created and its receiver replaces dns_rx, which drops the
\* receiver of a lookup still under way; dns_result is cleared.
StartDnsLookup(text_empty, starts) ==
    /\ ~text_empty
    /\ Len(dns.tasks) < starts
    /\ dns' = [rx     |-> Len(dns.tasks) + 1,
               result |-> [lookup |-> 0, ok |-> FALSE],
               tasks  |-> Append(dns.tasks, "resolve"),
               chan   |-> Append([id \in DOMAIN dns.chan |-> <<>>], <<>>),
               stored |-> Append(dns.stored, 0)]

\* the spawned task: dns::resolve returns Ok or Err, and the one
\* "let _ = tx.send(res).await" queues it while the receiver is alive
DnsResolveToCurrentReceiver(w, ok) ==
    /\ dns.tasks[w] = "resolve"
    /\ dns' = [dns EXCEPT
                 !.tasks[w] = "done",
                 !.chan = IF dns.rx # 0
                          THEN [@ EXCEPT ![dns.rx] =
                                   Append(@, [lookup |-> w, ok |-> ok])]
                          ELSE @]

DnsResolve(w, ok) ==
    /\ dns.tasks[w] = "resolve"
    /\ dns' = [dns EXCEPT
                 !.tasks[w] = "done",
                 !.chan[w] = IF dns.rx = w
                             THEN Append(@, [lookup |-> w, ok |-> ok])
                             ELSE @]

\* the dns_rx block of tick: "if let Ok(result) = rx.try_recv()" stores the
\* result and sets dns_rx = None, which drops the receiver
TickDnsKeepsReceiver ==
    dns' = IF dns.rx # 0 /\ dns.chan[dns.rx] # <<>>
           THEN [dns EXCEPT !.result = Head(dns.chan[dns.rx]),
                            !.chan[dns.rx] = Tail(@),
                            !.stored[dns.rx] = @ + 1]
           ELSE dns
TickDns ==
    dns' = IF dns.rx # 0 /\ dns.chan[dns.rx] # <<>>
           THEN [dns EXCEPT !.result = Head(dns.chan[dns.rx]),
                            !.rx = 0,
                            !.chan[dns.rx] = <<>>,
                            !.stored[dns.rx] = @ + 1]
           ELSE dns

\* ------------------------------------------------------------------------
\* App::tick.  elapsed is the time since the previous tick in ms; a run
\* ends once `samples` ticks have changed a rate history.
\* ------------------------------------------------------------------------
Tick(elapsed, samples) ==
    /\ TickPing
    /\ TickDns
    /\ TickSniffer
    /\ TickConnections
    /\ TickMtr
    /\ TickDbPing
    /\ ping_chan' = [id \in DOMAIN ping_chan |->
                        IF id \in {ping_rx, db_ping_rx} THEN <<>> ELSE ping_chan[id]]
    /\ TickTraffic
    /\ TickBandwidth(elapsed)
    /\ rate_samples' = IF rateVars' = rateVars THEN rate_samples ELSE rate_samples + 1
    /\ rate_samples' <= samples
    /\ UNCHANGED <<mtr_active, mtr_rx, mtr_should_stop, mtr_workers,
                   sniffer, sniffer_active, sniffer_rx, snif_workers,
                   snif_frames, ping_workers, db_ping_rx, interfaces,
                   geoip_reader, connections_rx, conn_snapshots, conn_task>>

\* ------------------------------------------------------------------------
\* App::start_mtr / App::stop_mtr and MtrTask::start / MtrTask::stop
\* ------------------------------------------------------------------------
\* Besides the locals of the closure a worker carries a record of what it
\* has done:
\*   sweep        - the results it has handed to tx.send in the current pass
\*                  of the for loop (ttl, responder, is_target), in order
\*   sweeps       - how many passes of the for loop it has begun (kept for
\*                  workers with a cycle limit only)
\*   saw_stop     - it has read should_stop as true
\*   failed_sends - how many of its sends have returned an error (at most 2
\*                  are told apart)
NewMtrWorker(input) ==
    [pc |-> "parse", host |-> input.host, count |-> input.count,
     max_hops |-> input.max_hops, cycles_done |-> 0, ttl |-> 0,
     sweep |-> <<>>, sweeps |-> 0, saw_stop |-> FALSE, failed_sends |-> 0]

\* Replacing mtr_rx drops the previous receiver and, with it, whatever was
\* still queued on its channel.
StartMtr(input, starts) ==
    /\ ~mtr_active
    /\ ~input.text_empty
    /\ Len(mtr_workers) < starts
    /\ mtr_hops' = <<>>
    /\ mtr_rx' = Len(mtr_workers) + 1
    /\ mtr_chan' = Append([id \in DOMAIN mtr_chan |-> <<>>], <<>>)
    /\ mtr_disconnects' = 0
    /\ mtr_should_stop' = FALSE
    /\ mtr_workers' = Append(mtr_workers, NewMtrWorker(input))
    /\ mtr_active' = TRUE

StopMtrClearsHops ==
    /\ mtr_active
    /\ mtr_should_stop' = TRUE
    /\ mtr_active' = FALSE
    /\ mtr_hops' = <<>>
    /\ UNCHANGED <<mtr_rx, mtr_workers, mtr_chan, mtr_disconnects>>
StopMtr ==
    /\ mtr_active
    /\ mtr_should_stop' = TRUE
    /\ mtr_active' = FALSE
    /\ UNCHANGED <<mtr_rx, mtr_hops, mtr_workers, mtr_chan, mtr_disconnects>>

\* ------------------------------------------------------------------------
\* The probe worker thread (the closure of MtrTask::start)
\* ------------------------------------------------------------------------
MtrSetPc(w, pc) == mtr_workers' = [mtr_workers EXCEPT ![w].pc = pc]

\* argument parsing and target resolution: return when there is no host or
\* it cannot be resolved
MtrParseSkipsResolution(w) ==
    /\ mtr_workers[w].pc = "parse"
    /\ MtrSetPc(w, IF mtr_workers[w].host = "" THEN "done" ELSE "cycle")
    /\ UNCHANGED <<mtr_active, mtr_rx, mtr_hops, mtr_should_stop, mtr_chan,
                   mtr_disconnects>>
MtrParse(w) ==
    /\ mtr_workers[w].pc = "parse"
    /\ MtrSetPc(w, IF mtr_workers[w].host = "good" THEN "cycle" ELSE "done")
    /\ UNCHANGED <<mtr_active, mtr_rx, mtr_hops, mtr_should_stop, mtr_chan,
                   mtr_disconnects>>

\* top of "loop": stop flag, cycle limit, cycles_done += 1, enter the sweep.
\* cycles_done is only ever read against the limit, so it is not advanced
\* when there is none.
\* "if let Some(c) = count { if cycles_done >= c { break; } }"
CycleLimitOffByOne(wk) == \E c \in wk.count : wk.cycles_done > c
CycleLimitReached(wk) == \E c \in wk.count : wk.cycles_done >= c

MtrCycle(w) ==
    LET wk == mtr_workers[w]
    IN  /\ wk.pc = "cycle"
        /\ mtr_workers' =
             IF mtr_should_stop
             THEN [mtr_workers EXCEPT ![w].pc = "done", ![w].saw_stop = TRUE]
             ELSE IF CycleLimitReached(wk)
             THEN [mtr_workers EXCEPT ![w].pc = "done"]
             ELSE [mtr_workers EXCEPT
                     ![w].cycles_done =
                         IF wk.count = {} THEN 0 ELSE wk.cycles_done + 1,
                     ![w].sweeps =
                         IF wk.count = {} THEN 0 ELSE wk.sweeps + 1,
                     ![w].sweep = <<>>,
                     ![w].ttl = 1,
                     ![w].pc = IF wk.max_hops >= 1 THEN "ttl" ELSE "sleep"]
        /\ UNCHANGED <<mtr_active, mtr_rx, mtr_hops, mtr_should_stop, mtr_chan,
                       mtr_disconnects>>

\* head of "for ttl in 1..=max_hops": break when the stop flag is set,
\* else call probe
MtrTtlIgnoresStop(w) ==
    /\ mtr_workers[w].pc = "ttl"
    /\ MtrSetPc(w, "probe")
    /\ UNCHANGED <<mtr_active, mtr_rx, mtr_hops, mtr_should_stop, mtr_chan,
                   mtr_disconnects>>
MtrTtl(w) ==
    /\ mtr_workers[w].pc = "ttl"
    /\ mtr_workers' =
         IF mtr_should_stop
         THEN [mtr_workers EXCEPT ![w].pc = "sleep", ![w].saw_stop = TRUE]
         ELSE [mtr_workers EXCEPT ![w].pc = "probe"]
    /\ UNCHANGED <<mtr_active, mtr_rx, mtr_hops, mtr_should_stop, mtr_chan,
                   mtr_disconnects>>

\* what probe(target, ttl) may return: Err (socket creation, option or send
\* failed), a timeout result, or a reply from some responder
ProbeTimeout(ttl) ==
    [ttl |-> ttl, host |-> "none", rtt |-> DURATION_MAX,
     successful |-> FALSE, is_target |-> FALSE]
ProbeReply(ttl, addr, rtt) ==
    [ttl |-> ttl, host |-> addr, rtt |-> rtt,
     successful |-> TRUE, is_target |-> (addr = TargetIp)]
ProbeOutcomes(ttl, net) ==
    {[ok |-> FALSE]}
    \cup (IF net.lossy THEN {[ok |-> TRUE, r |-> ProbeTimeout(ttl)]} ELSE {})
    \cup {[ok |-> TRUE, r |-> ProbeReply(ttl, a, t)] : a \in net.from, t \in net.rtts}

\* tx.send on a crossbeam channel: queued while the receiver is alive,
\* an error (dropped by "let _ =") once it has been dropped
MtrSendToCurrentReceiver(w, r) ==
    IF mtr_rx # 0
    THEN mtr_chan' = [mtr_chan EXCEPT ![mtr_rx] = Append(@, r)]
    ELSE UNCHANGED mtr_chan
MtrSend(w, r) ==
    IF mtr_rx = w
    THEN mtr_chan' = [mtr_chan EXCEPT ![w] = Append(@, r)]
    ELSE UNCHANGED mtr_chan

\* the session's budget of delivered results is used up
MtrBudgetSpent(w, budget) ==
    mtr_rx = w /\ TotalSent(mtr_hops) + Len(mtr_chan[w]) >= budget

\* the rest of the for body: probe, send, break at the target, pace
\* "let is_target = r.host == Some(target_ip)"
IsTargetNever(r) == FALSE
IsTarget(r) == r.host = TargetIp

\* the worker's record of a send: the result joins the sweep, an error of
\* the send is counted
MtrSent(wk, w, r) ==
    [wk EXCEPT
       !.sweep = Append(@, [ttl |-> r.ttl, host |-> r.host,
                            is_target |-> r.is_target]),
       !.failed_sends = IF mtr_rx = w THEN @ ELSE Min2(@ + 1, 2)]

MtrProbe(w, out, budget) ==
    LET wk == mtr_workers[w]
        sent == IF out.ok THEN MtrSent(wk, w, out.r) ELSE wk
        after_pace == IF wk.ttl < wk.max_hops
                      THEN [sent EXCEPT !.ttl = wk.ttl + 1, !.pc = "ttl"]
                      ELSE [sent EXCEPT !.pc = "sleep"]
    IN  /\ wk.pc = "probe"
        /\ MtrBudgetSpent(w, budget) => ~out.ok
        /\ IF out.ok
           THEN /\ MtrSend(w, out.r)
                /\ mtr_workers' =
                     [mtr_workers EXCEPT
                        ![w] = IF IsTarget(out.r)
                               THEN [sent EXCEPT !.pc = "sleep"]
                               ELSE after_pace]
           ELSE /\ mtr_workers' = [mtr_workers EXCEPT ![w] = after_pace]
                /\ UNCHANGED mtr_chan
        /\ UNCHANGED <<mtr_active, mtr_rx, mtr_hops, mtr_should_stop,
                       mtr_disconnects>>

\* the sleep between cycles
MtrSleep(w) ==
    /\ mtr_workers[w].pc = "sleep"
    /\ MtrSetPc(w, "cycle")
    /\ UNCHANGED <<mtr_active, mtr_rx, mtr_hops, mtr_should_stop, mtr_chan,
                   mtr_disconnects>>

MtrWorkerStep(w, net, budget) ==
    \/ MtrParse(w)
    \/ MtrCycle(w)
    \/ MtrTtl(w)
    \/ \E out \in ProbeOutcomes(mtr_workers[w].ttl, net) : MtrProbe(w, out, budget)
    \/ MtrSleep(w)

\* the user's keys on the trace screen and the steps of the probe workers
MtrStep(inputs, starts, net, budget) ==
    \/ \E input \in inputs : StartMtr(input, starts)
    \/ StopMtr
    \/ \E w \in 1..Len(mtr_workers) : MtrWorkerStep(w, net, budget)

\* ------------------------------------------------------------------------
\* App::start_sniffer / App::stop_sniffer and Sniffer::start / Sniffer::stop
\* ------------------------------------------------------------------------
\* failed_sends: how many of the worker's sends have returned an error;
\* opened: what became of the interface lookup and datalink::channel
\* ("no" before the worker has got there)
NewSnifWorker(raw) ==
    [pc |-> "open", filter_arg |-> raw, filter |-> NormalizeFilter(raw),
     frame |-> NoFrame, is_inbound |-> FALSE, is_lan |-> FALSE,
     failed_sends |-> 0, opened |-> "no"]

\* raw is the text of the filter box.  Replacing sniffer_rx drops the
\* previous receiver and what was queued on its channel.
StartSniffer(raw, starts) ==
    /\ ~sniffer_active
    /\ interfaces > 0
    /\ Len(snif_workers) < starts
    /\ sniffer_rx' = Len(snif_workers) + 1
    /\ snif_chan' = Append([id \in DOMAIN snif_chan |-> <<>>], <<>>)
    /\ snif_disconnects' = 0
    /\ sniffer' = [sniffer EXCEPT !.should_stop = FALSE]
    /\ snif_workers' = Append(snif_workers, NewSnifWorker(raw))
    /\ sniffer_active' = TRUE
    /\ UNCHANGED <<sniffer_packets, snif_frames>>

StopSniffer ==
    /\ sniffer_active
    /\ sniffer' = [sniffer EXCEPT !.should_stop = TRUE]
    /\ sniffer_active' = FALSE
    /\ UNCHANGED <<sniffer_rx, sniffer_packets, snif_workers, snif_chan,
                   snif_disconnects, snif_frames>>

\* ------------------------------------------------------------------------
\* The capture worker thread (the closure of Sniffer::start)
\* ------------------------------------------------------------------------
\* tx.send: queued while the receiver is alive, an error once it is dropped
SnifSendOk(w) == sniffer_rx = w

\* interface lookup and datalink::channel: "ok", "err" (the channel cannot
\* be opened: one ERR summary, then return) or "missing" (the interface is
\* gone: expect panics, which ends the thread)
SnifOpenErrorFallsThrough(w, outcome) ==
    /\ snif_workers[w].pc = "open"
    /\ snif_workers' = [snif_workers EXCEPT
                          ![w].pc = IF outcome = "missing" THEN "done" ELSE "poll",
                          ![w].opened = outcome,
                          ![w].failed_sends =
                              IF outcome = "err" /\ ~SnifSendOk(w)
                              THEN Min2(@ + 1, 2) ELSE @]
    /\ snif_chan' = IF outcome = "err" /\ SnifSendOk(w)
                    THEN [snif_chan EXCEPT ![w] = Append(@, ErrorSummary)]
                    ELSE snif_chan
    /\ UNCHANGED <<sniffer, sniffer_active, sniffer_rx, sniffer_packets,
                   snif_disconnects, snif_frames>>
SnifOpen(w, outcome) ==
    /\ snif_workers[w].pc = "open"
    /\ snif_workers' = [snif_workers EXCEPT
                          ![w].pc = IF outcome = "ok" THEN "poll" ELSE "done",
                          ![w].opened = outcome,
                          ![w].failed_sends =
                              IF outcome = "err" /\ ~SnifSendOk(w)
                              THEN Min2(@ + 1, 2) ELSE @]
    /\ snif_chan' = IF outcome = "err" /\ SnifSendOk(w)
                    THEN [snif_chan EXCEPT ![w] = Append(@, ErrorSummary)]
                    ELSE snif_chan
    /\ UNCHANGED <<sniffer, sniffer_active, sniffer_rx, sniffer_packets,
                   snif_disconnects, snif_frames>>

\* top of "loop": leave when the stop flag is set
SnifPollIgnoresStop(w) ==
    /\ snif_workers[w].pc = "poll"
    /\ snif_workers' = [snif_workers EXCEPT ![w].pc = "read"]
    /\ UNCHANGED <<sniffer, sniffer_active, sniffer_rx, sniffer_packets,
                   snif_chan, snif_disconnects, snif_frames>>
SnifPoll(w) ==
    /\ snif_workers[w].pc = "poll"
    /\ snif_workers' = [snif_workers EXCEPT
                          ![w].pc = IF sniffer.should_stop THEN "done" ELSE "read"]
    /\ UNCHANGED <<sniffer, sniffer_active, sniffer_rx, sniffer_packets,
                   snif_chan, snif_disconnects, snif_frames>>

\* rx.next(): a read error (got = {}) goes round the loop; a frame is
\* counted in packet_count.  Once `budget` frames have been counted every
\* read fails.
SnifReadUncounted(w, got, budget) ==
    /\ snif_workers[w].pc = "read"
    /\ sniffer.packet_count >= budget => got = {}
    /\ IF got = {}
       THEN /\ snif_workers' = [snif_workers EXCEPT ![w].pc = "poll"]
            /\ UNCHANGED <<sniffer, snif_frames>>
       ELSE /\ snif_workers' = [snif_workers EXCEPT
                                  ![w].pc = "classify",
                                  ![w].frame = CHOOSE f \in got : TRUE]
            /\ UNCHANGED sniffer
            /\ snif_frames' = Append(snif_frames, CHOOSE f \in got : TRUE)
    /\ UNCHANGED <<sniffer_active, sniffer_rx, sniffer_packets, snif_chan,
                   snif_disconnects>>
SnifRead(w, got, budget) ==
    /\ snif_workers[w].pc = "read"
    /\ sniffer.packet_count >= budget => got = {}
    /\ IF got = {}
       THEN /\ snif_workers' = [snif_workers EXCEPT ![w].pc = "poll"]
            /\ UNCHANGED <<sniffer, snif_frames>>
       ELSE /\ snif_workers' = [snif_workers EXCEPT
                                  ![w].pc = "classify",
                                  ![w].frame = CHOOSE f \in got : TRUE]
            /\ sniffer' = [sniffer EXCEPT !.packet_count = @ + 1]
            /\ snif_frames' = Append(snif_frames, CHOOSE f \in got : TRUE)
    /\ UNCHANGED <<sniffer_active, sniffer_rx, sniffer_packets, snif_chan,
                   snif_disconnects>>

\* EthernetPacket::new(packet).unwrap(), which panics and so ends the
\* thread when the frame is shorter than an Ethernet header; then the match
\* on the ethertype: protocol counters, is_inbound, is_lan
SnifClassify(w) ==
    LET wk == snif_workers[w]
        d  == Direction(wk.frame)
    IN  /\ wk.pc = "classify"
        /\ sniffer' = IF wk.frame.ether = "Runt" THEN sniffer
                       ELSE CountProtocol(sniffer, wk.frame)
        /\ snif_workers' =
             IF wk.frame.ether = "Runt"
             THEN [snif_workers EXCEPT ![w].pc = "done"]
             ELSE [snif_workers EXCEPT
                     ![w].pc = "count",
                     ![w].is_inbound = d.is_inbound,
                     ![w].is_lan = d.is_lan]
        /\ UNCHANGED <<sniffer_active, sniffer_rx, sniffer_packets, snif_chan,
                       snif_disconnects, snif_frames>>

\* "if is_inbound { .. } else { .. }": the direction and byte counters
SnifCountIfMatches(w) ==
    LET wk == snif_workers[w]
        hit == \E sm \in ParsePacket(wk.frame) : FilterMatches(wk.filter, sm)
    IN  /\ wk.pc = "count"
        /\ sniffer' = IF hit
                       THEN CountDirection(sniffer, wk.frame.len, wk.is_inbound, wk.is_lan)
                       ELSE sniffer
        /\ snif_workers' = [snif_workers EXCEPT ![w].pc = "emit"]
        /\ UNCHANGED <<sniffer_active, sniffer_rx, sniffer_packets, snif_chan,
                       snif_disconnects, snif_frames>>
SnifCount(w) ==
    LET wk == snif_workers[w]
    IN  /\ wk.pc = "count"
        /\ sniffer' = CountDirection(sniffer, wk.frame.len, wk.is_inbound, wk.is_lan)
        /\ snif_workers' = [snif_workers EXCEPT ![w].pc = "emit"]
        /\ UNCHANGED <<sniffer_active, sniffer_rx, sniffer_packets, snif_chan,
                       snif_disconnects, snif_frames>>

\* parse_packet, the filter and tx.send; a failed send leaves the loop
SnifEmit(w) ==
    LET wk == snif_workers[w]
        sends == { sm \in ParsePacket(wk.frame) : FilterMatches(wk.filter, sm) }
    IN  /\ wk.pc = "emit"
        /\ snif_chan' = IF sends # {} /\ SnifSendOk(w)
                        THEN [snif_chan EXCEPT
                                ![w] = Append(@, CHOOSE sm \in sends : TRUE)]
                        ELSE snif_chan
        /\ snif_workers' = [snif_workers EXCEPT
                              ![w].pc = IF sends # {} /\ ~SnifSendOk(w)
                                        THEN "done" ELSE "poll",
                              ![w].failed_sends =
                                  IF sends # {} /\ ~SnifSendOk(w)
                                  THEN Min2(@ + 1, 2) ELSE @]
        /\ UNCHANGED <<sniffer, sniffer_active, sniffer_rx, sniffer_packets,
                       snif_disconnects, snif_frames>>

SnifWorkerStep(w, frames, budget) ==
    \/ \E outcome \in {"ok", "err", "missing"} : SnifOpen(w, outcome)
    \/ SnifPoll(w)
    \/ \E got \in {{}} \cup {{f} : f \in frames} : SnifRead(w, got, budget)
    \/ SnifClassify(w)
    \/ SnifCount(w)
    \/ SnifEmit(w)

\* the user's keys on the capture screen and the steps of the capture workers
SnifStep(filters, starts, frames, budget) ==
    \/ \E raw \in filters : StartSniffer(raw, starts)
    \/ StopSniffer
    \/ \E w \in 1..Len(snif_workers) : SnifWorkerStep(w, frames, budget)

\* ------------------------------------------------------------------------
\* App::start_ping / App::stop_ping and the PingTask (PingTask::run)
\* ------------------------------------------------------------------------
\* failed_sends: how many of the task's sends have returned an error
NewPingTask(input, dashboard) ==
    [pc |-> "parse", host |-> input.host, count |-> input.count, seq |-> 0,
     dashboard |-> dashboard, failed_sends |-> 0, sent |-> 0]

UserPings == { id \in 1..Len(ping_workers) : ~ping_workers[id].dashboard }

StartPing(input, starts) ==
    /\ ~is_pinging
    /\ ~input.text_empty
    /\ Cardinality(UserPings) < starts
    /\ ping_history' = <<>>
    /\ ping_rx' = Len(ping_workers) + 1
    /\ ping_chan' = Append(ping_chan, <<>>)
    /\ is_pinging' = TRUE
    /\ ping_workers' = Append(ping_workers, NewPingTask(input, FALSE))
    /\ UNCHANGED <<ping_rtt_history, db_ping_rx, db_ping_history, db_jitter_history>>

\* dropping the receiver closes the channel and drops what is queued on it
StopPingKeepsReceiver ==
    /\ is_pinging' = FALSE
    /\ UNCHANGED <<ping_rx, ping_chan>>
    /\ UNCHANGED <<ping_history, ping_rtt_history, ping_workers, db_ping_rx,
                   db_ping_history, db_jitter_history>>

StopPing ==
    /\ is_pinging' = FALSE
    /\ ping_rx' = 0
    /\ ping_chan' = [id \in DOMAIN ping_chan |->
                        IF id = ping_rx THEN <<>> ELSE ping_chan[id]]
    /\ UNCHANGED <<ping_history, ping_rtt_history, ping_workers, db_ping_rx,
                   db_ping_history, db_jitter_history>>

PingReceiverAlive(w) == w \in {ping_rx, db_ping_rx}

PingErr(text) == [ok |-> FALSE, seq |-> 0, time |-> 0, text |-> text]
PingOk(seq, time) == [ok |-> TRUE, seq |-> seq, time |-> time, text |-> ""]

\* argument parsing and resolution: without a host, or with one that does
\* not resolve, one Err result and return
PingParse(w) ==
    LET wk == ping_workers[w]
        err == IF wk.host = "" THEN PingErr("No target provided")
               ELSE PingErr("Could not resolve")
    IN  /\ wk.pc = "parse"
        /\ IF wk.host = "good"
           THEN /\ ping_workers' = [ping_workers EXCEPT ![w].pc = "ping"]
                /\ UNCHANGED ping_chan
           ELSE /\ ping_workers' = [ping_workers EXCEPT
                       ![w].pc = "done",
                       ![w].failed_sends =
                           IF PingReceiverAlive(w) THEN @ ELSE Min2(@ + 1, 2)]
                /\ ping_chan' = IF PingReceiverAlive(w)
                                THEN [ping_chan EXCEPT ![w] = Append(@, err)]
                                ELSE ping_chan
        /\ UNCHANGED <<is_pinging, ping_rx, ping_history, ping_rtt_history,
                       db_ping_rx, db_ping_history, db_jitter_history>>

\* one round of the ping loop up to the sleep: surge_ping::ping, the send
\* (which waits while the channel is full and fails once the receiver is
\* dropped), seq.wrapping_add(1) and the count check.  A run delivers at
\* most `budget` results of one task; sent counts them.
PingProbeIgnoresSendError(w, result, budget) ==
    LET wk == ping_workers[w]
        seq == (wk.seq + 1) % SEQ_MODULUS
    IN  /\ wk.pc = "ping"
        /\ PingReceiverAlive(w) => wk.sent < budget
        /\ PingReceiverAlive(w) => Len(ping_chan[w]) < PING_CHANNEL_CAP
        /\ ping_chan' = IF PingReceiverAlive(w)
                        THEN [ping_chan EXCEPT ![w] = Append(@, result)]
                        ELSE ping_chan
        /\ ping_workers' = [ping_workers EXCEPT
               ![w].seq = seq,
               ![w].sent = IF PingReceiverAlive(w) THEN @ + 1 ELSE @,
               ![w].failed_sends =
                   IF PingReceiverAlive(w) THEN @ ELSE Min2(@ + 1, 2),
               ![w].pc = IF \E c \in wk.count : seq >= c
                         THEN "done" ELSE "sleep"]
        /\ UNCHANGED <<is_pinging, ping_rx, ping_history, ping_rtt_history,
                       db_ping_rx, db_ping_history, db_jitter_history>>
PingProbe(w, result, budget) ==
    LET wk == ping_workers[w]
        seq == (wk.seq + 1) % SEQ_MODULUS
    IN  /\ wk.pc = "ping"
        /\ PingReceiverAlive(w) => wk.sent < budget
        /\ IF PingReceiverAlive(w)
           THEN /\ Len(ping_chan[w]) < PING_CHANNEL_CAP
                /\ ping_chan' = [ping_chan EXCEPT ![w] = Append(@, result)]
                /\ ping_workers' = [ping_workers EXCEPT
                       ![w].seq = seq,
                       ![w].sent = @ + 1,
                       ![w].pc = IF \E c \in wk.count : seq >= c
                                 THEN "done" ELSE "sleep"]
           ELSE /\ ping_workers' = [ping_workers EXCEPT
                       ![w].pc = "done",
                       ![w].failed_sends = Min2(@ + 1, 2)]
                /\ UNCHANGED ping_chan
        /\ UNCHANGED <<is_pinging, ping_rx, ping_history, ping_rtt_history,
                       db_ping_rx, db_ping_history, db_jitter_history>>

\* tokio::time::sleep(interval)
PingSleep(w) ==
    /\ ping_workers[w].pc = "sleep"
    /\ ping_workers' = [ping_workers EXCEPT ![w].pc = "ping"]
    /\ UNCHANGED <<is_pinging, ping_rx, ping_history, ping_rtt_history,
                   ping_chan, db_ping_rx, db_ping_history, db_jitter_history>>

\* what one ping may bring: an echo after one of the times of net, which
\* grow with the sequence number up to net.ramp, or a failure
PingResults(seq, net) ==
    { PingOk(seq, t + (seq % net.ramp)) : t \in net.rtts }
    \cup (IF net.fails THEN {PingErr("Ping failed")} ELSE {})

PingTaskStep(w, net, budget) ==
    \/ PingParse(w)
    \/ \E result \in PingResults(ping_workers[w].seq, net) : PingProbe(w, result, budget)
    \/ PingSleep(w)

\* the user's keys on the ping screen and the steps of the PingTasks
PingStep(inputs, starts, net, budget) ==
    \/ \E input \in inputs : StartPing(input, starts)
    \/ StopPing
    \/ \E w \in 1..Len(ping_workers) : PingTaskStep(w, net, budget)

\* ------------------------------------------------------------------------
\* App::start_background_tasks, which main calls once before the first tick
\* ------------------------------------------------------------------------
StartBackgroundTasks ==
    /\ db_ping_rx = 0 /\ connections_rx = 0
    /\ mtr_workers = <<>> /\ snif_workers = <<>> /\ ping_workers = <<>>
    /\ IF interfaces > 0
       THEN StartSniffer(<<>>, 1)
       ELSE UNCHANGED snifVars
    /\ db_ping_rx' = Len(ping_workers) + 1
    /\ ping_chan' = Append(ping_chan, <<>>)
    /\ ping_workers' = Append(ping_workers, NewPingTask(DashboardPing, TRUE))
    /\ connections_rx' = 1
    /\ conn_task' = [pc |-> "run", failed_sends |-> 0]
    /\ UNCHANGED <<is_pinging, ping_rx, ping_history, ping_rtt_history,
                   db_ping_history, db_jitter_history>>
    /\ UNCHANGED <<interfaces, geoip_reader, conn_chan, conn_snapshots,
                   active_connections, connection_count_history, geo_lookups>>
    /\ UNCHANGED <<mtrVars, rateVars, rate_samples, dns>>

\* ------------------------------------------------------------------------
\* Specifications
\* ------------------------------------------------------------------------
Zeros(n) == [i \in 1..n |-> 0]
ZeroMbps(n) == [i \in 1..n |-> [num |-> 0, den |-> 1]]

NewSniffer ==
    [should_stop |-> FALSE, packet_count |-> 0, in_packets |-> 0,
     out_packets |-> 0, wan_in_bytes |-> 0, wan_out_bytes |-> 0,
     lan_in_bytes |-> 0, lan_out_bytes |-> 0, tcp_packets |-> 0,
     udp_packets |-> 0]

InitMtr ==
    /\ mtr_active = FALSE
    /\ mtr_rx = 0
    /\ mtr_hops = <<>>
    /\ mtr_should_stop = FALSE
    /\ mtr_workers = <<>>
    /\ mtr_chan = <<>>
    /\ mtr_disconnects = 0

InitSniffer ==
    /\ sniffer = NewSniffer
    /\ sniffer_active = FALSE
    /\ sniffer_rx = 0
    /\ sniffer_packets = <<>>
    /\ snif_workers = <<>>
    /\ snif_chan = <<>>
    /\ snif_disconnects = 0
    /\ snif_frames = <<>>

InitHistories ==
    /\ traffic_history = Zeros(HISTORY_CAP)
    /\ rx_history = Zeros(HISTORY_CAP)
    /\ tx_history = Zeros(HISTORY_CAP)
    /\ wan_rx_history = ZeroMbps(HISTORY_CAP)
    /\ wan_tx_history = ZeroMbps(HISTORY_CAP)
    /\ lan_rx_history = ZeroMbps(HISTORY_CAP)
    /\ lan_tx_history = ZeroMbps(HISTORY_CAP)
    /\ rate_samples = 0

InitPing ==
    /\ is_pinging = FALSE
    /\ ping_rx = 0
    /\ ping_history = <<>>
    /\ ping_rtt_history = <<>>
    /\ ping_workers = <<>>
    /\ ping_chan = <<>>
    /\ db_ping_rx = 0
    /\ db_ping_history = Zeros(HISTORY_CAP)
    /\ db_jitter_history = Zeros(HISTORY_CAP)

\* ifaces: how many interfaces get_interfaces may find; readers: whether
\* the embedded ASN database opens
InitConn(ifaces, readers) ==
    /\ interfaces \in ifaces
    /\ geoip_reader \in readers
    /\ connections_rx = 0
    /\ conn_chan = <<>>
    /\ conn_snapshots = 0
    /\ conn_task = [pc |-> "none", failed_sends |-> 0]
    /\ active_connections = <<>>
    /\ connection_count_history = Zeros(HISTORY_CAP)
    /\ geo_lookups = <<>>

InitLast ==
    /\ last_packet_count = 0
    /\ last_rx_count = 0
    /\ last_tx_count = 0
    /\ last_wan_rx_bytes = 0
    /\ last_wan_tx_bytes = 0
    /\ last_lan_rx_bytes = 0
    /\ last_lan_tx_bytes = 0

\* App::new
Init ==
    /\ InitMtr
    /\ InitSniffer
    /\ InitHistories
    /\ InitLast
    /\ InitPing
    /\ InitDns
    /\ InitConn({1}, {TRUE})

\* the times a tick may find elapsed since the previous one, in ms
Elapsed == {0, 50}

NextFold ==
    \/ MtrStep(FoldInputs, FoldStarts, FoldNet, FoldResultsMax)
         /\ UNCHANGED <<snifVars, rateVars, rate_samples, dns, pingVars, connVars>>
    \/ \E e \in Elapsed : Tick(e, 0)

SpecFold == Init /\ [][NextFold]_vars

NextLife ==
    \/ MtrStep(LifeInputs, LifeStarts, LifeNet, LifeResultsMax)
         /\ UNCHANGED <<snifVars, rateVars, rate_samples, dns, pingVars, connVars>>
    \/ \E e \in Elapsed : Tick(e, 0)

SpecLife == Init /\ [][NextLife]_vars

NextSniff ==
    \/ SnifStep(Filters, SniffStarts, Frames \cup {RuntFrame}, SniffFramesMax)
         /\ UNCHANGED <<mtrVars, rateVars, rate_samples, dns, pingVars, connVars>>
    \/ \E e \in Elapsed : Tick(e, SniffSamplesMax)

SpecSniff == Init /\ [][NextSniff]_vars

\* The dashboard on a host without a capture interface: the connections
\* monitor and the dashboard ping
InitDash ==
    /\ InitMtr
    /\ InitSniffer
    /\ InitHistories
    /\ InitLast
    /\ InitPing
    /\ InitDns
    /\ InitConn({0}, BOOLEAN)

DashNet == [rtts |-> {10, 30}, ramp |-> 1, fails |-> TRUE]

NextDash ==
    \/ StartBackgroundTasks
    \/ \E snap \in Snapshots : ConnSnapshot(snap, DashSnapshotsMax)
         /\ UNCHANGED <<mtrVars, snifVars, rateVars, rate_samples, dns, pingVars>>
    \/ \E w \in 1..Len(ping_workers) : PingTaskStep(w, DashNet, DashPingsMax)
         /\ UNCHANGED <<mtrVars, snifVars, rateVars, rate_samples, dns, connVars>>
    \/ \E e \in Elapsed : Tick(e, 0)

SpecDash == InitDash /\ [][NextDash]_vars

\* The history buffers.  A run is one of: the dashboard's background tasks
\* alone, one ping session after another, or one trace after another; the
\* buffers of the three are disjoint.  The network is quiet: every probe
\* is answered, a ping after 1 + seq ms.
InitHist ==
    /\ InitMtr
    /\ InitSniffer
    /\ InitHistories
    /\ InitLast
    /\ InitPing
    /\ InitDns
    /\ InitConn({0, 1}, {TRUE})

HistFrames == { f \in Frames : f.proto = "Tcp" /\ f.l4_ok }
HistSnapshots == { snap \in Snapshots : Len(snap) = 2 }
HistDashNet == [rtts |-> {10, 30}, ramp |-> 1, fails |-> FALSE]
HistPingInputs == { i \in PingInputs : i.host = "good" /\ i.count = {} }
HistPingNet == [rtts |-> {1}, ramp |-> 1000, fails |-> FALSE]
HistMtrInputs ==
    { [text_empty |-> FALSE, host |-> "good", count |-> {}, max_hops |-> 1] }
HistMtrNet == [from |-> {"router"}, rtts |-> {10}, lossy |-> FALSE]

NextHist ==
    \/ StartBackgroundTasks
    \/ \E w \in 1..Len(snif_workers) : SnifWorkerStep(w, HistFrames, SniffFramesMax)
         /\ UNCHANGED <<mtrVars, rateVars, rate_samples, dns, pingVars, connVars>>
    \/ \E snap \in HistSnapshots : ConnSnapshot(snap, DashSnapshotsMax)
         /\ UNCHANGED <<mtrVars, snifVars, rateVars, rate_samples, dns, pingVars>>
    \/ /\ db_ping_rx # 0
       /\ PingTaskStep(db_ping_rx, HistDashNet, DashPingsMax)
       /\ UNCHANGED <<mtrVars, snifVars, rateVars, rate_samples, dns, connVars>>
    \/ /\ db_ping_rx = 0 /\ mtr_workers = <<>>
       /\ PingStep(HistPingInputs, HistStarts, HistPingNet, HistPingsMax)
       /\ UNCHANGED <<mtrVars, snifVars, rateVars, rate_samples, dns, connVars>>
    \/ /\ db_ping_rx = 0 /\ ping_workers = <<>>
       /\ MtrStep(HistMtrInputs, HistStarts, HistMtrNet, HistProbesMax)
       /\ UNCHANGED <<snifVars, rateVars, rate_samples, dns, pingVars, connVars>>
    \/ \E e \in Elapsed : Tick(e, SniffSamplesMax)

SpecHist == InitHist /\ [][NextHist]_vars

\* The rate computation on its own: the values the App may remember from the
\* previous tick are drawn from small sets, so that a tick also meets a
\* counter that stands below the remembered value (a counter that restarted).
RememberedPackets == {0, 2}
RememberedBytes == {0, 100}

\* one frame for each of the four byte counters
RateFrames ==
    { f \in Frames : f.ether = "Ipv4" /\ f.ip_ok /\ f.proto \in {"Tcp", "Udp"} /\ f.len > 60 }
    \cup { f \in Frames : f.proto = "Icmp" }

InitRate ==
    /\ InitMtr
    /\ InitSniffer
    /\ InitHistories
    /\ InitPing
    /\ InitDns
    /\ InitConn({1}, {TRUE})
    /\ \E c \in RememberedPackets :
          /\ last_packet_count = c
          /\ last_rx_count = c
          /\ last_tx_count = c
    /\ \E b \in RememberedBytes :
          /\ last_wan_rx_bytes = b
          /\ last_wan_tx_bytes = b
          /\ last_lan_rx_bytes = b
          /\ last_lan_tx_bytes = b

NextRate ==
    \/ SnifStep({<<>>}, SniffStarts, RateFrames, SniffFramesMax)
         /\ UNCHANGED <<mtrVars, rateVars, rate_samples, dns, pingVars, connVars>>
    \/ \E e \in Elapsed : Tick(e, SniffSamplesMax)

SpecRate == InitRate /\ [][NextRate]_vars

\* main returns: `app` goes out of scope and every receiver it holds is
\* dropped with what is queued on it, while the worker threads and tasks
\* are still there.
DropApp ==
    /\ connections_rx # 0
    /\ ping_rx' = 0
    /\ db_ping_rx' = 0
    /\ sniffer_rx' = 0
    /\ mtr_rx' = 0
    /\ connections_rx' = 0
    /\ ping_chan' = [id \in DOMAIN ping_chan |-> <<>>]
    /\ snif_chan' = [id \in DOMAIN snif_chan |-> <<>>]
    /\ mtr_chan' = [id \in DOMAIN mtr_chan |-> <<>>]
    /\ conn_chan' = <<>>
    /\ dns' = [dns EXCEPT !.rx = 0, !.chan = [id \in DOMAIN dns.chan |-> <<>>]]
    /\ UNCHANGED <<mtr_active, mtr_hops, mtr_should_stop, mtr_workers,
                   mtr_disconnects, sniffer, sniffer_active, sniffer_packets,
                   snif_workers, snif_disconnects, snif_frames, rateVars,
                   rate_samples, is_pinging, ping_history, ping_rtt_history,
                   ping_workers, db_ping_history, db_jitter_history,
                   interfaces, geoip_reader, conn_snapshots, conn_task,
                   active_connections, connection_count_history, geo_lookups>>

\* The workers that watch their sends: the capture worker, the dashboard
\* ping, the ping sessions of the user and the connections monitor, from
\* start_background_tasks until after main has returned.  The App acts
\* (keys, ticks) only while it exists, which is while it holds
\* connections_rx.
ExitFrames == { f \in Frames : f.proto = "Tcp" /\ f.l4_ok /\ f.len > 60 }
ExitSnapshots == { snap \in Snapshots : Len(snap) = 2 }
ExitPingInputs == { i \in PingInputs : ~i.text_empty /\ i.count \in {{}, {1}} }
ExitNet == [rtts |-> {10}, ramp |-> 1, fails |-> FALSE]

NextExit ==
    \/ StartBackgroundTasks
    \/ /\ connections_rx # 0
       /\ \/ \E input \in ExitPingInputs : StartPing(input, ExitStarts)
          \/ StopPing
       /\ UNCHANGED <<mtrVars, snifVars, rateVars, rate_samples, dns, connVars>>
    \/ /\ connections_rx # 0
       /\ StopSniffer
       /\ UNCHANGED <<mtrVars, rateVars, rate_samples, dns, pingVars, connVars>>
    \/ \E w \in 1..Len(ping_workers) : PingTaskStep(w, ExitNet, ExitPingsMax)
         /\ UNCHANGED <<mtrVars, snifVars, rateVars, rate_samples, dns, connVars>>
    \/ \E w \in 1..Len(snif_workers) : SnifWorkerStep(w, ExitFrames, ExitFramesMax)
         /\ UNCHANGED <<mtrVars, rateVars, rate_samples, dns, pingVars, connVars>>
    \/ \E snap \in ExitSnapshots : ConnSnapshot(snap, ExitSnapshotsMax)
         /\ UNCHANGED <<mtrVars, snifVars, rateVars, rate_samples, dns, pingVars>>
    \/ /\ connections_rx # 0
       /\ \E e \in Elapsed : Tick(e, ExitFramesMax)
    \/ DropApp

SpecExit == Init /\ [][NextExit]_vars

\* The packet log near its capacity.  The capture of a TCP stream from a
\* host of the subnet to the first local address has been running for a
\* while: LogCaptured segments have been captured, counted, emitted and
\* drained into the log, and the rate graphs have gone back to zero since.
\* Segment n carries sequence number n.
StreamFrame(n) ==
    Frame("Ipv4", 74, TRUE, "Tcp", V4(10, 0, 0, 9), V4(10, 0, 0, 2), TRUE, 443, 5000, n, 60)

InitLog ==
    /\ InitMtr
    /\ InitHistories
    /\ InitPing
    /\ InitDns
    /\ InitConn({1}, {TRUE})
    /\ sniffer = [NewSniffer EXCEPT !.packet_count = LogCaptured,
                                    !.in_packets = LogCaptured,
                                    !.lan_in_bytes = LogCaptured * 74,
                                    !.tcp_packets = LogCaptured]
    /\ sniffer_active = TRUE
    /\ sniffer_rx = 1
    /\ sniffer_packets =
          [n \in 1..LogCaptured |-> CHOOSE sm \in ParsePacket(StreamFrame(n)) : TRUE]
    /\ snif_workers =
          << [NewSnifWorker(<<>>) EXCEPT !.pc = "poll", !.opened = "ok",
                                        !.frame = StreamFrame(LogCaptured),
                                        !.is_inbound = TRUE, !.is_lan = TRUE] >>
    /\ snif_chan = << <<>> >>
    /\ snif_disconnects = 0
    /\ snif_frames = [n \in 1..LogCaptured |-> StreamFrame(n)]
    /\ last_packet_count = LogCaptured
    /\ last_rx_count = LogCaptured
    /\ last_tx_count = 0
    /\ last_wan_rx_bytes = 0
    /\ last_wan_tx_bytes = 0
    /\ last_lan_rx_bytes = LogCaptured * 74
    /\ last_lan_tx_bytes = 0

NextLog ==
    \/ StopSniffer
         /\ UNCHANGED <<mtrVars, rateVars, rate_samples, dns, pingVars, connVars>>
    \/ \E w \in 1..Len(snif_workers) :
         /\ \/ SnifPoll(w)
            \/ \E got \in {{}, {StreamFrame(sniffer.packet_count + 1)}} :
                  SnifRead(w, got, LogFramesMax)
            \/ SnifClassify(w)
            \/ SnifCount(w)
            \/ SnifEmit(w)
         /\ UNCHANGED <<mtrVars, rateVars, rate_samples, dns, pingVars, connVars>>
    \/ \E e \in Elapsed : Tick(e, LogSamplesMax)

SpecLog == InitLog /\ [][NextLog]_vars

\* ------------------------------------------------------------------------
\* SpecCount: the ping screen alone.  The run starts either from App::new
\* or LongPingSent results into a ping with "-c 65536": the task is in its
\* sleep, every result has been received, and the two ping buffers hold
\* the newest PING_LOG_CAP results and HISTORY_CAP times.
\* ------------------------------------------------------------------------
CountInputs == { i \in PingInputs : ~i.text_empty }

InitLongPing ==
    /\ InitMtr
    /\ InitSniffer
    /\ InitHistories
    /\ InitLast
    /\ InitDns
    /\ InitConn({1}, {TRUE})
    /\ is_pinging = TRUE
    /\ ping_rx = 1
    /\ ping_workers =
          << [NewPingTask([text_empty |-> FALSE, host |-> "good",
                           count |-> {SEQ_MODULUS}], FALSE)
                EXCEPT !.pc = "sleep", !.seq = LongPingSent,
                       !.sent = LongPingSent] >>
    /\ ping_chan = << <<>> >>
    /\ ping_history =
          [n \in 1..PING_LOG_CAP |->
              LET seq == LongPingSent - PING_LOG_CAP + n - 1
              IN  CHOOSE r \in PingResults(seq, HistPingNet) : TRUE]
    /\ ping_rtt_history =
          [n \in 1..HISTORY_CAP |->
              LET seq == LongPingSent - HISTORY_CAP + n - 1
              IN  (CHOOSE r \in PingResults(seq, HistPingNet) : TRUE).time]
    /\ db_ping_rx = 0
    /\ db_ping_history = Zeros(HISTORY_CAP)
    /\ db_jitter_history = Zeros(HISTORY_CAP)

NextCount ==
    \/ \E input \in CountInputs : StartPing(input, CountStarts)
         /\ UNCHANGED <<mtrVars, snifVars, rateVars, rate_samples, dns, connVars>>
    \/ \E w \in 1..Len(ping_workers) :
         /\ PingTaskStep(w, HistPingNet,
                         IF ping_workers[w].sent >= LongPingSent
                         THEN LongPingsMax ELSE CountPingsMax)
         /\ UNCHANGED <<mtrVars, snifVars, rateVars, rate_samples, dns, connVars>>
    \/ \E e \in Elapsed : Tick(e, 0)

SpecCount == (Init \/ InitLongPing) /\ [][NextCount]_vars

\* The DNS screen: lookups started one after another, also while the
\* previous one is still under way, and the answers of the resolver.
NextDns ==
    \/ \E text_empty \in BOOLEAN : StartDnsLookup(text_empty, DnsStarts)
         /\ UNCHANGED <<mtrVars, snifVars, rateVars, rate_samples, pingVars, connVars>>
    \/ \E w \in 1..Len(dns.tasks) : \E ok \in BOOLEAN : DnsResolve(w, ok)
         /\ UNCHANGED <<mtrVars, snifVars, rateVars, rate_samples, pingVars, connVars>>
    \/ \E e \in Elapsed : Tick(e, 0)

SpecDns == Init /\ [][NextDns]_vars

\* Every probe worker is an OS thread: a thread that can take a step
\* eventually takes one.
MtrWorkerRuns(w) ==
    /\ w \in DOMAIN mtr_workers
    /\ MtrWorkerStep(w, LifeNet, LifeResultsMax)

SpecLifeFair ==
    /\ Init
    /\ [][NextLife]_vars
    /\ \A w \in 1..LifeStarts : WF_mtr_workers(MtrWorkerRuns(w))

\* ------------------------------------------------------------------------
\* Properties
\* ------------------------------------------------------------------------
\* the percentage a loss fraction stands for lies in [0, 100]
LossInRange(loss) ==
    /\ loss.den > 0
    /\ 0 <= 100 * loss.num
    /\ 100 * loss.num <= 100 * loss.den

\* C1: after any sequence of ProbeResults folded by tick, every HopStats
\* entry has recv <= sent and a loss percentage within [0, 100]; an entry
\* that has been updated carries the loss (sent - recv) / sent.
HopCountersInRange ==
    \A i \in 1..Len(mtr_hops) :
        LET h == mtr_hops[i]
        IN  /\ h.recv <= h.sent
            /\ LossInRange(h.loss)
            /\ h.sent > 0 => h.loss = [num |-> h.sent - h.recv, den |-> h.sent]

\* a hop that has folded a reply and a timeout, at a TTL above 1
HopWithLossFolded ==
    \E i \in 2..Len(mtr_hops) :
        /\ mtr_hops[i].recv >= 1
        /\ mtr_hops[i].sent > mtr_hops[i].recv

\* The reference rule of the Hop Aggregator over the successful round-trip
\* times of one hop, oldest first.
RECURSIVE RefAvg(_)
RefAvg(ts) ==
    IF ts = <<>> THEN 0
    ELSE LET n == Len(ts)
         IN  ((RefAvg(SubSeq(ts, 1, n - 1)) * (n - 1)) + ts[n]) \div n

RECURSIVE RefJitter(_)
RefJitter(ts) ==
    LET n == Len(ts)
    IN  IF n = 0 THEN 0
        ELSE IF n = 1 THEN ts[1]
        ELSE LET d == IF ts[n] > ts[n - 1] THEN ts[n] - ts[n - 1]
                      ELSE ts[n - 1] - ts[n]
             IN  ((RefJitter(SubSeq(ts, 1, n - 1)) * (n - 1)) + d) \div n

SeqRange(ts) == { ts[i] : i \in 1..Len(ts) }
SetMin(S) == CHOOSE x \in S : \A y \in S : x <= y
SetMax(S) == CHOOSE x \in S : \A y \in S : x >= y

\* the statistics of a hop are those the reference rule gives for the
\* times in its history (which holds every success while below capacity)
HopMatchesReference(h) ==
    LET ts == h.history
    IN  Len(ts) < HOP_HISTORY_CAP =>
          /\ h.recv = Len(ts)
          /\ h.avg = RefAvg(ts)
          /\ h.jitter = RefJitter(ts)
          /\ h.best = SetMin(SeqRange(ts) \cup {BEST_INIT})
          /\ h.worst = SetMax(SeqRange(ts) \cup {0})
          /\ ts # <<>> => h.last = ts[Len(ts)]

\* the worked example: three successes of 10, 20 and 30 ms and nothing else
HopExample(h) ==
    (h.history = <<10, 20, 30>> /\ h.sent = 3) =>
        /\ h.best = 10 /\ h.worst = 30 /\ h.avg = 20
        /\ h.recv = 3 /\ h.loss.num = 0 /\ h.jitter = 10

\* how many of the results in msgs are for hop k (and, with
\* only_ok, were answered)
RECURSIVE CountFor(_, _, _)
CountFor(msgs, k, only_ok) ==
    IF msgs = <<>> THEN 0
    ELSE (IF Head(msgs).ttl = k /\ (only_ok => Head(msgs).successful) THEN 1 ELSE 0)
         + CountFor(Tail(msgs), k, only_ok)

\* a step in which tick drains a non-empty probe channel
MtrDrainStep ==
    /\ mtr_rx # 0
    /\ mtr_rx' = mtr_rx
    /\ mtr_chan[mtr_rx] # <<>>
    /\ mtr_chan'[mtr_rx] = <<>>

\* each drained result adds 1 to sent of its hop and, when successful,
\* 1 to recv of its hop
DrainCountsEachResult ==
    MtrDrainStep =>
        \A k \in 1..Len(mtr_hops') :
            LET old == IF k <= Len(mtr_hops) THEN mtr_hops[k] ELSE NewHop(k)
            IN  /\ mtr_hops'[k].sent = old.sent + CountFor(mtr_chan[mtr_rx], k, FALSE)
                /\ mtr_hops'[k].recv = old.recv + CountFor(mtr_chan[mtr_rx], k, TRUE)

\* C2: for every sequence of results at one hop the fold of tick equals the
\* reference rule: sent and recv grow by 1 per (successful) result, jitter
\* and avg follow the truncating running averages, best is the minimum and
\* worst the maximum; RTTs 10, 20, 30 give best 10, worst 30, avg 20,
\* sent 3, recv 3, loss 0 and jitter 10.
FoldEqualsReference ==
    /\ [](\A i \in 1..Len(mtr_hops) :
            HopMatchesReference(mtr_hops[i]) /\ HopExample(mtr_hops[i]))
    /\ [][DrainCountsEachResult]_vars

\* the worked example has been folded at the second hop
HopExampleFolded ==
    \E i \in 2..Len(mtr_hops) :
        mtr_hops[i].history = <<10, 20, 30>> /\ mtr_hops[i].sent = 3


\* stop_mtr has been called on the task of worker w: start_mtr only spawns
\* while mtr_active is false, and only stop_mtr makes it false again
MtrStopCalled(w) ==
    /\ w \in DOMAIN mtr_workers
    /\ (w # mtr_rx \/ ~mtr_active)

MtrExited(w) ==
    /\ w \in DOMAIN mtr_workers
    /\ mtr_workers[w].pc = "done"

\* C5: once stop_mtr has been called on a running probe task, that task's
\* worker eventually stops emitting and exits (which drops its sender),
\* also when start_mtr is called again before the worker polled the flag.
MtrStopLeadsToExit ==
    \A w \in 1..LifeStarts : [](MtrStopCalled(w) => <>MtrExited(w))

\* C6: the tick loop observes the disconnection of a channel exactly once:
\* the first tick that gets Disconnected stops polling the receiver, so no
\* later tick gets Disconnected from it again.
DisconnectionSeenOnce ==
    /\ mtr_disconnects <= 1
    /\ snif_disconnects <= 1

\* ---- capture classification ------------------------------------------
\* the (address, mask) pairs bound to the interface that are IPv4
BoundPairs == { pr \in { IfaceIps[i] : i \in 1..Len(IfaceIps) } : pr.ip.v = 4 }

\* (endpoint AND mask) = (address AND mask) for at least one bound pair
EndpointOnLan(endpoint) ==
    \E pr \in BoundPairs :
        \A k \in 1..4 : BitAnd(endpoint.o[k], pr.mask.o[k])
                          = BitAnd(pr.ip.o[k], pr.mask.o[k])

IsIpv4Frame(f) == f.ether = "Ipv4" /\ f.ip_ok

RefInbound(f) == f.dst \in { pr.ip : pr \in BoundPairs }
RefOutbound(f) == ~RefInbound(f) /\ f.src \in { pr.ip : pr \in BoundPairs }
RefLan(f) ==
    \/ RefInbound(f) /\ EndpointOnLan(f.src)
    \/ RefOutbound(f) /\ EndpointOnLan(f.dst)

\* C7: an IPv4 frame is inbound iff its destination is a bound local
\* address; it is LAN iff the other endpoint (the source when inbound, the
\* destination when outbound, i.e. when the source is a bound local
\* address) is in the subnet of at least one bound (address, mask) pair,
\* and WAN otherwise.  So a bound destination with the source inside that
\* subnet is inbound+LAN and a destination outside every bound subnet is WAN.
ClassificationMatchesRule ==
    \A w \in 1..Len(snif_workers) :
        LET wk == snif_workers[w]
            f  == wk.frame
        IN  (wk.pc = "count" /\ IsIpv4Frame(f)) =>
              /\ wk.is_inbound <=> RefInbound(f)
              /\ wk.is_lan <=> RefLan(f)
              /\ (\E pr \in BoundPairs :
                     /\ f.dst = pr.ip
                     /\ \A k \in 1..4 : BitAnd(f.src.o[k], pr.mask.o[k])
                                          = BitAnd(pr.ip.o[k], pr.mask.o[k]))
                   => (wk.is_inbound /\ wk.is_lan)
              /\ ~EndpointOnLan(f.dst) => ~wk.is_lan

\* a frame from the second local address into its /28 has been classified
\* outbound and LAN
LanFrameClassified ==
    \E w \in 1..Len(snif_workers) :
        /\ snif_workers[w].pc = "count"
        /\ snif_workers[w].frame.src = V4(192, 168, 1, 7)
        /\ snif_workers[w].frame.dst = V4(192, 168, 1, 12)
        /\ ~snif_workers[w].is_inbound
        /\ snif_workers[w].is_lan

\* ---- the capture filter -------------------------------------------------
\* case folding of ASCII text, letter by letter
FoldChar(c) ==
    IF c = "A" THEN "a" ELSE IF c = "B" THEN "b" ELSE IF c = "C" THEN "c"
    ELSE IF c = "D" THEN "d" ELSE IF c = "E" THEN "e" ELSE IF c = "F" THEN "f"
    ELSE IF c = "G" THEN "g" ELSE IF c = "H" THEN "h" ELSE IF c = "I" THEN "i"
    ELSE IF c = "J" THEN "j" ELSE IF c = "K" THEN "k" ELSE IF c = "L" THEN "l"
    ELSE IF c = "M" THEN "m" ELSE IF c = "N" THEN "n" ELSE IF c = "O" THEN "o"
    ELSE IF c = "P" THEN "p" ELSE IF c = "Q" THEN "q" ELSE IF c = "R" THEN "r"
    ELSE IF c = "S" THEN "s" ELSE IF c = "T" THEN "t" ELSE IF c = "U" THEN "u"
    ELSE IF c = "V" THEN "v" ELSE IF c = "W" THEN "w" ELSE IF c = "X" THEN "x"
    ELSE IF c = "Y" THEN "y" ELSE IF c = "Z" THEN "z" ELSE c
CaseFolded(str) == [i \in 1..Len(str) |-> FoldChar(str[i])]

IsSubstring(pat, str) ==
    \E i \in 1..(Len(str) + 1) :
        /\ i + Len(pat) - 1 <= Len(str)
        /\ \A k \in 1..Len(pat) : str[i + k - 1] = pat[k]

\* the rule of the filter for the filter text flt
RefFilterRule(flt, sm) ==
    \/ flt = <<>>
    \/ \E field \in {sm.source, sm.destination, sm.protocol, sm.info} :
          IsSubstring(CaseFolded(flt), CaseFolded(field))

\* the filter text without surrounding white space
RefTrimmed(str) ==
    IF \A i \in 1..Len(str) : str[i] \in {" ", "\t"} THEN <<>>
    ELSE LET first == CHOOSE i \in 1..Len(str) :
                         /\ str[i] \notin {" ", "\t"}
                         /\ \A j \in 1..(i - 1) : str[j] \in {" ", "\t"}
             last  == CHOOSE i \in 1..Len(str) :
                         /\ str[i] \notin {" ", "\t"}
                         /\ \A j \in (i + 1)..Len(str) : str[j] \in {" ", "\t"}
         IN  SubSeq(str, first, last)

\* the step in which worker w decides about the summary of its frame while
\* its receiver is alive; the summary is emitted when it joins the channel
SnifEmitStep(w) ==
    /\ w \in 1..Len(snif_workers)
    /\ snif_workers[w].pc = "emit"
    /\ snif_workers'[w].pc # "emit"
    /\ sniffer_rx = w

Emitted(w, sm) == snif_chan'[w] = Append(snif_chan[w], sm)

EmitFollowsRuleAsTyped ==
    \A w \in 1..SniffStarts :
        SnifEmitStep(w) =>
            \A sm \in ParsePacket(snif_workers[w].frame) :
                Emitted(w, sm) <=> RefFilterRule(snif_workers[w].filter_arg, sm)

EmitFollowsRuleTrimmed ==
    \A w \in 1..SniffStarts :
        SnifEmitStep(w) =>
            \A sm \in ParsePacket(snif_workers[w].frame) :
                /\ Emitted(w, sm)
                     <=> RefFilterRule(RefTrimmed(snif_workers[w].filter_arg), sm)
                /\ snif_workers[w].filter_arg = <<>> => Emitted(w, sm)

\* C8 as stated: a summary is emitted iff the configured filter is empty or
\* the case-folded filter is a substring of the case-folded source,
\* destination, protocol label or info string.
FilterMatchingAsTyped == [][EmitFollowsRuleAsTyped]_vars

\* C8, amended: a summary is emitted iff the configured filter, with the white
\* space around it removed, is empty or its case-folded text is a substring of
\* the case-folded source, destination, protocol label or info string; an
\* empty filter emits every summary.
FilterMatchingTrimmed == [][EmitFollowsRuleTrimmed]_vars

\* a TCP summary has been emitted under the filter "tcp " (trailing blank)
TcpEmittedUnderPaddedFilter ==
    \E w \in 1..Len(snif_workers) :
        /\ snif_workers[w].filter_arg = <<"t", "c", "p", " ">>
        /\ snif_chan[w] # <<>>
        /\ snif_chan[w][1].protocol = <<"T", "C", "P">>

\* ---- the counters ----------------------------------------------------------
\* how many of the frames are in the set kind, and their bytes
CountOf(frames, kind) == Cardinality({ i \in 1..Len(frames) : frames[i] \in kind })
RECURSIVE BytesOf(_, _)
BytesOf(frames, kind) ==
    IF frames = <<>> THEN 0
    ELSE (IF Head(frames) \in kind THEN Head(frames).len ELSE 0)
         + BytesOf(Tail(frames), kind)

FrameInbound(f) ==
    f.ether \in {"Ipv4", "Ipv6"} /\ f.ip_ok
    /\ f.dst \in { IfaceIps[i].ip : i \in 1..Len(IfaceIps) }
FrameLan(f) == IsIpv4Frame(f) /\ RefLan(f)
LanIn == { f \in Frames : FrameInbound(f) /\ FrameLan(f) }
WanIn == { f \in Frames : FrameInbound(f) /\ ~FrameLan(f) }
LanOut == { f \in Frames : ~FrameInbound(f) /\ FrameLan(f) }
WanOut == { f \in Frames : ~FrameInbound(f) /\ ~FrameLan(f) }

\* the nine counters as a function of the captured frames alone
CountersOf(frames) ==
    [packet_count |-> Len(frames),
     in_packets |-> CountOf(frames, LanIn \cup WanIn),
     out_packets |-> CountOf(frames, LanOut \cup WanOut),
     wan_in_bytes |-> BytesOf(frames, WanIn),
     wan_out_bytes |-> BytesOf(frames, WanOut),
     lan_in_bytes |-> BytesOf(frames, LanIn),
     lan_out_bytes |-> BytesOf(frames, LanOut),
     tcp_packets |-> CountOf(frames, { f \in Frames : IsIpv4Frame(f) /\ f.proto = "Tcp" }),
     udp_packets |-> CountOf(frames, { f \in Frames : IsIpv4Frame(f) /\ f.proto = "Udp" })]

NineCounters ==
    [k \in DOMAIN CountersOf(<<>>) |-> sniffer[k]]

\* no capture worker is between reading a frame and counting it
FramesAllCounted ==
    \A w \in 1..Len(snif_workers) : snif_workers[w].pc \notin {"classify", "count"}

\* C9: the counters do not depend on the filter: whenever the captured
\* frames have all been counted, the nine counters are the function
\* CountersOf of the sequence of frames alone, so two capture sessions that
\* process the same frames under different filters end with the same counters.
CountersIndependentOfFilter ==
    FramesAllCounted => NineCounters = CountersOf(snif_frames)

\* a frame has been counted by a session whose filter kept its summary back
FrameCountedNotEmitted ==
    \E w \in 1..Len(snif_workers) :
        /\ snif_workers[w].pc = "poll"
        /\ snif_workers[w].filter = <<"z", "z">>
        /\ snif_workers[w].frame \in Frames
        /\ ParsePacket(snif_workers[w].frame) # {}
        /\ snif_chan[w] = <<>>
        /\ sniffer.out_packets + sniffer.in_packets = Len(snif_frames)
        /\ Len(snif_frames) >= 1

\* ---- rates from cumulative counters ----------------------------------------
Clamped(d) == IF d > 0 THEN d ELSE 0

\* every sample of every rate history is zero or more
RatesNonNegative ==
    /\ \A i \in 1..Len(traffic_history) : traffic_history[i] >= 0
    /\ \A i \in 1..Len(rx_history) : rx_history[i] >= 0
    /\ \A i \in 1..Len(tx_history) : tx_history[i] >= 0
    /\ \A i \in 1..Len(wan_rx_history) : wan_rx_history[i].num >= 0 /\ wan_rx_history[i].den > 0
    /\ \A i \in 1..Len(wan_tx_history) : wan_tx_history[i].num >= 0 /\ wan_tx_history[i].den > 0
    /\ \A i \in 1..Len(lan_rx_history) : lan_rx_history[i].num >= 0 /\ lan_rx_history[i].den > 0
    /\ \A i \in 1..Len(lan_tx_history) : lan_tx_history[i].num >= 0 /\ lan_tx_history[i].den > 0

Newest(buf) == buf[Len(buf)]

\* a step that changes what the App remembers of the packet counters, or a
\* packet rate history, pushes max(0, current - previous) for each of them
PacketRatePushed ==
    (<<traffic_history, rx_history, tx_history, last_packet_count,
       last_rx_count, last_tx_count>>' #
     <<traffic_history, rx_history, tx_history, last_packet_count,
       last_rx_count, last_tx_count>>)
    => /\ Newest(traffic_history') = Clamped(sniffer.packet_count - last_packet_count)
       /\ Newest(rx_history') = Clamped(sniffer.in_packets - last_rx_count)
       /\ Newest(tx_history') = Clamped(sniffer.out_packets - last_tx_count)

\* the same for the byte counters: the sample is 8 * max(0, current -
\* previous) bits over the elapsed microseconds
ByteRatePushed ==
    (<<wan_rx_history, wan_tx_history, lan_rx_history, lan_tx_history,
       last_wan_rx_bytes, last_wan_tx_bytes, last_lan_rx_bytes,
       last_lan_tx_bytes>>' #
     <<wan_rx_history, wan_tx_history, lan_rx_history, lan_tx_history,
       last_wan_rx_bytes, last_wan_tx_bytes, last_lan_rx_bytes,
       last_lan_tx_bytes>>)
    => /\ Newest(wan_rx_history').num = 8 * Clamped(sniffer.wan_in_bytes - last_wan_rx_bytes)
       /\ Newest(wan_tx_history').num = 8 * Clamped(sniffer.wan_out_bytes - last_wan_tx_bytes)
       /\ Newest(lan_rx_history').num = 8 * Clamped(sniffer.lan_in_bytes - last_lan_rx_bytes)
       /\ Newest(lan_tx_history').num = 8 * Clamped(sniffer.lan_out_bytes - last_lan_tx_bytes)

\* C4: the per-tick rate computed from a cumulative counter is
\* max(0, current - previous): never negative, and 0 when the counter read
\* in this tick is below the value remembered from the previous tick.
RateIsClampedDifference ==
    /\ []RatesNonNegative
    /\ [][PacketRatePushed /\ ByteRatePushed]_vars

\* a tick has read a packet counter of 1 against a remembered 2 and pushed 0
RateZeroAfterCounterReset ==
    /\ sniffer.packet_count = 1
    /\ last_packet_count = 1
    /\ rate_samples = 1
    /\ \A i \in 1..Len(traffic_history) : traffic_history[i] = 0

\* ---- connections -----------------------------------------------------------
TimesLookedUp(lookups, ip) ==
    Cardinality({ i \in 1..Len(lookups) : lookups[i] = ip })

CarriedForward(ip) ==
    /\ TimesLookedUp(geo_lookups', ip) = TimesLookedUp(geo_lookups, ip)
    /\ ip \in DOMAIN active_connections' =>
          /\ active_connections'[ip].asn_num = active_connections[ip].asn_num
          /\ active_connections'[ip].asn_org = active_connections[ip].asn_org
          /\ active_connections'[ip].location = active_connections[ip].location

\* C10: when tick processes a snapshot, every address that is already a key
\* of active_connections keeps its asn_num, asn_org and location in the new
\* map, and lookup_info is not called for that address.
SnapshotCarriesForward ==
    [][\A ip \in DOMAIN active_connections : CarriedForward(ip)]_vars

\* 8.8.8.8 was looked up for one snapshot and carried into the next, which
\* lists it twice
AddressCarriedForward ==
    /\ geoip_reader
    /\ conn_snapshots = 2
    /\ conn_chan = <<>>
    /\ V4(8, 8, 8, 8) \in DOMAIN active_connections
    /\ active_connections[V4(8, 8, 8, 8)].protocol = "udp4"
    /\ active_connections[V4(8, 8, 8, 8)].asn_num = 15169
    /\ geo_lookups = << V4(8, 8, 8, 8) >>

\* ---- bounded history buffers -----------------------------------------------
HistoriesWithinCapacity ==
    /\ Len(traffic_history) <= 100 /\ Len(rx_history) <= 100
    /\ Len(tx_history) <= 100
    /\ Len(wan_rx_history) <= 100 /\ Len(wan_tx_history) <= 100
    /\ Len(lan_rx_history) <= 100 /\ Len(lan_tx_history) <= 100
    /\ Len(ping_rtt_history) <= 100
    /\ Len(ping_history) <= 50
    /\ Len(db_ping_history) <= 100 /\ Len(db_jitter_history) <= 100
    /\ Len(connection_count_history) <= 100
    /\ \A i \in 1..Len(mtr_hops) : Len(mtr_hops[i].history) <= 100

\* the last n values of a sequence, oldest first
LastN(vals, n) ==
    IF Len(vals) <= n THEN vals
    ELSE [i \in 1..n |-> vals[Len(vals) - n + i]]

\* old has become new by pushing the values of pushed, in order
KeepsNewest(old, new, pushed, cap) == new = LastN(old \o pushed, cap)

\* one sample has been pushed on a full buffer
ShiftedByOne(old, new, cap) ==
    /\ Len(new) = cap
    /\ \A i \in 1..(cap - 1) : new[i] = old[i + 1]

IsOkResult(r) == r.ok
TimeOf(results) == [i \in 1..Len(results) |-> results[i].time]
\* the times the queued ping results of channel id bring
QueuedTimes(id) == TimeOf(SelectSeq(ping_chan[id], IsOkResult))
\* |t1 - prev|, |t2 - t1|, ... for the times t1, t2, ...
JittersOf(prev, times) ==
    [i \in 1..Len(times) |->
        LET before == IF i = 1 THEN prev ELSE times[i - 1]
        IN  IF times[i] > before THEN times[i] - before ELSE before - times[i]]
\* the round-trip times the queued successful results bring to hop ttl
QueuedRtts(ttl) ==
    LET forHop(r) == r.ttl = ttl /\ r.successful
        rs == SelectSeq(mtr_chan[mtr_rx], forHop)
    IN  [i \in 1..Len(rs) |-> rs[i].rtt]
HistoryBefore(ttl) ==
    IF ttl <= Len(mtr_hops) THEN mtr_hops[ttl].history ELSE <<>>

RateHistoriesShift ==
    /\ traffic_history' # traffic_history => ShiftedByOne(traffic_history, traffic_history', 100)
    /\ rx_history' # rx_history => ShiftedByOne(rx_history, rx_history', 100)
    /\ tx_history' # tx_history => ShiftedByOne(tx_history, tx_history', 100)
    /\ wan_rx_history' # wan_rx_history => ShiftedByOne(wan_rx_history, wan_rx_history', 100)
    /\ wan_tx_history' # wan_tx_history => ShiftedByOne(wan_tx_history, wan_tx_history', 100)
    /\ lan_rx_history' # lan_rx_history => ShiftedByOne(lan_rx_history, lan_rx_history', 100)
    /\ lan_tx_history' # lan_tx_history => ShiftedByOne(lan_tx_history, lan_tx_history', 100)
    /\ connection_count_history' # connection_count_history =>
          KeepsNewest(connection_count_history, connection_count_history',
                      << Cardinality(DOMAIN active_connections') >>, 100)

\* a step that changes a ping or hop buffer pushes what was queued for
\* it; start_ping may empty the ping log and start_mtr the hop table
QueuedHistoriesKeepNewest ==
    /\ ping_rtt_history' # ping_rtt_history =>
          KeepsNewest(ping_rtt_history, ping_rtt_history', QueuedTimes(ping_rx), 100)
    /\ ping_history' # ping_history =>
          \/ ping_history' = <<>>
          \/ KeepsNewest(ping_history, ping_history', ping_chan[ping_rx], 50)
    /\ db_ping_history' # db_ping_history =>
          KeepsNewest(db_ping_history, db_ping_history', QueuedTimes(db_ping_rx), 100)
    /\ db_jitter_history' # db_jitter_history =>
          KeepsNewest(db_jitter_history, db_jitter_history',
                      JittersOf(db_ping_history[Len(db_ping_history)],
                                QueuedTimes(db_ping_rx)), 100)
    /\ mtr_hops' # mtr_hops =>
          \A ttl \in 1..Len(mtr_hops') :
              KeepsNewest(HistoryBefore(ttl), mtr_hops'[ttl].history, QueuedRtts(ttl), 100)

\* C3: no bounded history buffer (capacity 50 for the ping log, 100 for the
\* others) ever exceeds its capacity, and pushing keeps exactly the newest
\* `capacity` values, oldest first.
HistoriesKeepNewestValues ==
    /\ []HistoriesWithinCapacity
    /\ [][RateHistoriesShift /\ QueuedHistoriesKeepNewest]_vars

\* after 101 pings the ping log holds pings 51..100 and ping_rtt_history
\* the times of pings 1..100: ping 0 has been evicted from both
PingBuffersWrapped ==
    /\ Len(ping_history) = 50
    /\ ping_history[1].seq = 51
    /\ ping_history[50].seq = 100
    /\ Len(ping_rtt_history) = 100
    /\ ping_rtt_history[1] = 2
    /\ ping_rtt_history[100] = 101

\* ------------------------------------------------------------------------
\* The sweeps of the probe worker
\* ------------------------------------------------------------------------
\* the TTLs of the results of the current sweep are 1, 2, 3, ...
SweepTtlsAscend(wk) == \A i \in 1..Len(wk.sweep) : wk.sweep[i].ttl = i

\* a worker about to attempt TTL n has emitted a result for each of 1..n-1
SweepCoversAttempts(wk) ==
    wk.pc \in {"ttl", "probe"} => Len(wk.sweep) = wk.ttl - 1

\* C11: in every sweep the probe worker emits exactly one ProbeResult for
\* each TTL it attempts, whatever the outcome of the attempt, so that the
\* results of a sweep carry the TTLs 1, 2, 3, ... without gaps.
SweepEmitsOnePerTtl ==
    \A w \in DOMAIN mtr_workers :
        /\ SweepTtlsAscend(mtr_workers[w])
        /\ SweepCoversAttempts(mtr_workers[w])

\* ------------------------------------------------------------------------
\* The drains of a tick
\* ------------------------------------------------------------------------
\* a step of the tick of the dashboard
DashTickStep == \E e \in Elapsed : Tick(e, 0)

\* nothing is left on a channel whose receiver the App holds
ChannelsLeftEmpty ==
    /\ ping_rx # 0 => ping_chan'[ping_rx] = <<>>
    /\ db_ping_rx # 0 => ping_chan'[db_ping_rx] = <<>>
    /\ mtr_rx # 0 => mtr_chan'[mtr_rx] = <<>>
    /\ sniffer_rx # 0 => snif_chan'[sniffer_rx] = <<>>
    /\ connections_rx # 0 => conn_chan' = <<>>

\* C12: a tick drains every active producer channel (ping, probe, capture,
\* connection snapshots) to exhaustion: every message that was in a
\* channel when the tick started has been consumed when it returns.
TickDrainsEveryChannel == [][DashTickStep => ChannelsLeftEmpty]_vars

\* ------------------------------------------------------------------------
\* The end of a probe or capture task
\* ------------------------------------------------------------------------
\* C13: a probe worker whose receiver has been dropped treats its next
\* failed send as a stop signal and exits its loop: a worker with a failed
\* send behind it has ended.
FailedSendEndsProbeWorker ==
    \A w \in DOMAIN mtr_workers :
        mtr_workers[w].failed_sends > 0 => mtr_workers[w].pc = "done"

\* C14: when a probe or capture worker has ended by itself, the tick that
\* finds its channel disconnected marks the task inactive (mtr_active,
\* sniffer_active become false), so that a new task can be started without
\* a stop call.
DisconnectionMarksTaskInactive ==
    /\ mtr_disconnects > 0 => ~mtr_active
    /\ snif_disconnects > 0 => ~sniffer_active

\* a worker that got as far as the loop: its target resolved
MtrLooping(w) ==
    /\ w \in DOMAIN mtr_workers
    /\ mtr_workers[w].host = "good"

\* a looping worker with a cycle limit
MtrLimited(w) ==
    /\ MtrLooping(w)
    /\ mtr_workers[w].count # {}

\* a worker that has ended without ever reading the stop flag as set has
\* begun exactly as many sweeps as its cycle limit says, and a worker
\* without a limit has not ended; no worker exceeds its limit
SweepsMatchLimit ==
    \A w \in DOMAIN mtr_workers :
        LET wk == mtr_workers[w]
        IN  MtrLooping(w) =>
              /\ \A c \in wk.count : wk.sweeps <= c
              /\ wk.pc = "done" /\ ~wk.saw_stop =>
                    /\ wk.count # {}
                    /\ wk.sweeps \in wk.count

\* C15: a probe worker started with a cycle limit c (and a target that
\* resolves) that is not stopped performs exactly c TTL sweeps, none when
\* c = 0, and then terminates; a worker without a cycle limit terminates
\* only when it finds the stop flag set.
CycleLimitBoundsSweeps ==
    /\ []SweepsMatchLimit
    /\ \A w \in 1..LifeStarts : [](MtrLimited(w) => <>MtrExited(w))

\* a worker with the limit 1 has ended after one sweep, unstopped
OneCycleWorkerDone ==
    \E w \in DOMAIN mtr_workers :
        /\ mtr_workers[w].host = "good"
        /\ mtr_workers[w].count = {1}
        /\ mtr_workers[w].pc = "done"
        /\ ~mtr_workers[w].saw_stop
        /\ mtr_workers[w].sweeps = 1

MtrAlive == { w \in DOMAIN mtr_workers : mtr_workers[w].pc # "done" }
SnifAlive == { w \in DOMAIN snif_workers : snif_workers[w].pc # "done" }

\* C16: in every reachable state at most one probe worker thread and at
\* most one capture worker thread is alive.
AtMostOneWorkerAlive ==
    /\ Cardinality(MtrAlive) <= 1
    /\ Cardinality(SnifAlive) <= 1

\* ------------------------------------------------------------------------
\* Early termination at the target
\* ------------------------------------------------------------------------
\* a result carries is_target exactly when its responder is the target
FlagsTarget(r) == r.is_target <=> r.host = TargetIp

\* C17: within one sweep the first ProbeResult whose responder equals the
\* resolved target is the last result of that sweep, and a result has
\* is_target = true iff its responder equals the target.
TargetEndsSweep ==
    /\ \A w \in DOMAIN mtr_workers :
          \A i \in 1..Len(mtr_workers[w].sweep) :
              LET r == mtr_workers[w].sweep[i]
              IN  /\ FlagsTarget(r)
                  /\ r.host = TargetIp => i = Len(mtr_workers[w].sweep)
    /\ \A id \in DOMAIN mtr_chan :
          \A i \in 1..Len(mtr_chan[id]) : FlagsTarget(mtr_chan[id][i])

\* a sweep of up to two hops has ended at hop 1, where the target answered
SweepEndedAtTarget ==
    \E w \in DOMAIN mtr_workers :
        LET wk == mtr_workers[w]
        IN  /\ wk.max_hops = 2
            /\ wk.pc = "sleep"
            /\ ~wk.saw_stop
            /\ Len(wk.sweep) = 1
            /\ wk.sweep[1].host = TargetIp
            /\ wk.sweep[1].is_target

\* ------------------------------------------------------------------------
\* Cooperative cancellation
\* ------------------------------------------------------------------------
\* while the stop flag stays set, a probe worker that is not inside a probe
\* does not enter one, a probe in flight is left by its next step, and only
\* the probe in flight adds a result to the sweep
ProbeWorkerHeedsStop(w) ==
    LET a == mtr_workers[w]
        b == mtr_workers'[w]
    IN  /\ a.pc # "probe" => b.pc # "probe"
        /\ a.pc = "probe" /\ b # a => b.pc # "probe"
        /\ b.sweep # a.sweep =>
              /\ a.pc = "probe"
              /\ Len(b.sweep) = Len(a.sweep) + 1

\* C18: the stop flag is checked before every probe and before every
\* cycle: once it is set and not reset the worker starts no new probe and
\* emits at most one further ProbeResult, that of the probe in flight.
StopStartsNoProbe ==
    [][mtr_should_stop /\ mtr_should_stop' =>
          \A w \in DOMAIN mtr_workers : ProbeWorkerHeedsStop(w)]_vars

\* the flag is set and a worker has left the for loop on reading it
SweepBrokenByStop ==
    /\ mtr_should_stop
    /\ \E w \in DOMAIN mtr_workers :
          /\ mtr_workers[w].pc = "sleep"
          /\ mtr_workers[w].saw_stop
          /\ mtr_workers[w].ttl <= mtr_workers[w].max_hops
          /\ \A i \in 1..Len(mtr_workers[w].sweep) :
                 mtr_workers[w].sweep[i].host # TargetIp

\* while the stop flag stays set, a capture worker at the top of its loop
\* leaves the loop, no worker begins a read, and a frame is counted only by
\* the read in flight
CaptureWorkerHeedsStop(w) ==
    LET a == snif_workers[w]
        b == snif_workers'[w]
    IN  /\ a.pc = "poll" => b.pc \in {"poll", "done"}
        /\ b.pc = "read" => a.pc = "read"
        /\ a.pc = "done" => b.pc = "done"
        /\ b.pc = "classify" /\ a.pc # "classify" =>
              /\ a.pc = "read"
              /\ Len(snif_frames') = Len(snif_frames) + 1

\* C19: the capture worker polls the stop flag once per loop iteration
\* before the blocking read: once the flag is set and not reset the worker
\* counts and emits at most one further frame, that of the read in flight,
\* and then exits its loop.
StopEndsCapture ==
    [][sniffer.should_stop /\ sniffer'.should_stop =>
          /\ \A w \in DOMAIN snif_workers : CaptureWorkerHeedsStop(w)
          /\ Len(snif_frames') <= Len(snif_frames) + 1]_vars

\* the flag is set and a worker that had read a frame has left at the poll
CaptureStoppedAfterFrame ==
    /\ sniffer.should_stop
    /\ Len(snif_frames) = 1
    /\ \E w \in DOMAIN snif_workers :
          /\ snif_workers[w].pc = "done"
          /\ snif_workers[w].failed_sends = 0
          /\ snif_workers[w].frame # NoFrame

\* ------------------------------------------------------------------------
\* The first failed send
\* ------------------------------------------------------------------------
ExitsAtFailedSend(wk) ==
    /\ wk.failed_sends <= 1
    /\ wk.failed_sends = 1 => wk.pc = "done"

\* C20: the ping, connection-snapshot and capture workers exit at their
\* first failed send: after the receiver is dropped a worker performs at
\* most one further send attempt and has then left its loop.
WorkersExitAtFailedSend ==
    /\ \A w \in DOMAIN ping_workers : ExitsAtFailedSend(ping_workers[w])
    /\ \A w \in DOMAIN snif_workers : ExitsAtFailedSend(snif_workers[w])
    /\ ExitsAtFailedSend(conn_task)

\* a ping session stopped by stop_ping after its first result, the capture
\* worker and the connections monitor have each ended on a failed send
EachWorkerEndedOnFailedSend ==
    /\ \E w \in DOMAIN ping_workers :
          /\ ~ping_workers[w].dashboard
          /\ ping_workers[w].seq = 1
          /\ ping_workers[w].failed_sends = 1
          /\ ping_workers[w].pc = "done"
    /\ \E w \in DOMAIN snif_workers :
          /\ snif_workers[w].failed_sends = 1
          /\ snif_workers[w].pc = "done"
    /\ conn_task.failed_sends = 1
    /\ conn_task.pc = "done"

\* ------------------------------------------------------------------------
\* C21: a probe worker whose input names no host, or a host that neither
\* resolves nor parses as an address, returns before its loop: it never
\* probes and never sends, so its channel holds nothing at any time, the
\* hop table of its session stays empty, and once it has returned the
\* receiver finds the channel empty and disconnected.
\* ------------------------------------------------------------------------
MtrUnresolved(w) == w \in DOMAIN mtr_workers /\ mtr_workers[w].host # "good"

UnresolvedHostEmitsNothing ==
    \A w \in DOMAIN mtr_workers :
        MtrUnresolved(w) =>
            /\ mtr_workers[w].pc \in {"parse", "done"}
            /\ mtr_workers[w].sweep = <<>>
            /\ mtr_workers[w].failed_sends = 0
            /\ mtr_chan[w] = <<>>
            /\ mtr_rx = w => mtr_hops = <<>>
            /\ (mtr_rx = w /\ mtr_disconnects > 0) => MtrSenderDropped(w)

\* a worker for a host that does not resolve and one for an input without a
\* host have both returned, and a tick has found the channel of the second
\* session disconnected
UnresolvedWorkersReturned ==
    /\ \E w \in DOMAIN mtr_workers :
          mtr_workers[w].host = "bad" /\ mtr_workers[w].pc = "done"
    /\ \E w \in DOMAIN mtr_workers :
          mtr_workers[w].host = "" /\ mtr_workers[w].pc = "done"
    /\ mtr_rx # 0 /\ MtrUnresolved(mtr_rx)
    /\ mtr_disconnects > 0
    /\ mtr_hops = <<>>

\* ------------------------------------------------------------------------
\* C22: the result of a probe that timed out has successful = false, no
\* host and is_target = false; folding it adds 1 to the hop's sent and
\* recomputes loss, and leaves recv, host, last, best, worst, avg, jitter
\* and history as they were (for an entry the fold has just created: as
\* in a fresh entry).
\* ------------------------------------------------------------------------
FailedResultShape(r) == ~r.successful => (r.host = "none" /\ ~r.is_target)

\* the entry of hop k as the drain finds it
HopBefore(k) ==
    IF k <= Len(mtr_hops) THEN mtr_hops[k] ELSE NewHop(mtr_hops'[k].ttl)

\* a drain in which every result for hop k is a timeout
DrainsOnlyTimeoutsFor(k) ==
    /\ MtrDrainStep
    /\ CountFor(mtr_chan[mtr_rx], k, FALSE) > 0
    /\ CountFor(mtr_chan[mtr_rx], k, TRUE) = 0

TimeoutFoldTouchesSentAndLoss ==
    /\ [](\A w \in DOMAIN mtr_chan : \A i \in 1..Len(mtr_chan[w]) :
             FailedResultShape(mtr_chan[w][i]))
    /\ [][\A k \in 1..Len(mtr_hops') :
             DrainsOnlyTimeoutsFor(k) =>
                 LET n == CountFor(mtr_chan[mtr_rx], k, FALSE)
                 IN  mtr_hops'[k] =
                         [HopBefore(k) EXCEPT
                            !.sent = @ + n,
                            !.loss = HopLoss(HopBefore(k).sent + n,
                                             HopBefore(k).recv)]]_vars

\* hop 1 has folded a reply and then, in the sweep now under way, a
\* timeout: the responder and the statistics of the reply are still there
TimeoutFoldedAfterReply ==
    /\ mtr_rx # 0 /\ mtr_chan[mtr_rx] = <<>>
    /\ mtr_workers[mtr_rx].sweep = <<[ttl |-> 1, host |-> "none", is_target |-> FALSE]>>
    /\ Len(mtr_hops) >= 1
    /\ mtr_hops[1].sent = 2 /\ mtr_hops[1].recv = 1
    /\ mtr_hops[1].host = "router"
    /\ mtr_hops[1].history # <<>>
    /\ mtr_hops[1].last = mtr_hops[1].history[1]

\* ------------------------------------------------------------------------
\* C23: the hop table never gets shorter within a session: a tick only
\* appends entries and keeps the ttl of those it has, stop_mtr leaves the
\* table as it is, and the table is emptied only by a start_mtr that
\* starts a session (the App was inactive, it is active afterwards and
\* holds a new receiver).
\* ------------------------------------------------------------------------
MtrSessionStarts == ~mtr_active /\ mtr_active' /\ mtr_rx' # mtr_rx
MtrStopStep == mtr_active /\ ~mtr_active'

HopsPrefixKept ==
    /\ Len(mtr_hops') >= Len(mtr_hops)
    /\ \A i \in 1..Len(mtr_hops) : mtr_hops'[i].ttl = mtr_hops[i].ttl

HopTableOnlyGrows ==
    [][/\ HopsPrefixKept \/ (MtrSessionStarts /\ mtr_hops' = <<>>)
       /\ MtrStopStep => mtr_hops' = mtr_hops
       /\ MtrSessionStarts => mtr_hops' = <<>>]_vars

\* the second session has been stopped and its hops are still on the
\* screen, after the first session's hops were cleared by its start
HopsKeptAfterStop ==
    /\ Len(mtr_workers) = 2
    /\ ~mtr_active /\ mtr_should_stop
    /\ Len(mtr_hops) = 2
    /\ mtr_workers[1].sweep # <<>>

\* ------------------------------------------------------------------------
\* C24: a result with TTL k is folded into the entry at index k - 1 (the
\* k-th entry) and into no other: after a tick the table is as long as the
\* largest TTL seen, every entry's sent has grown by the number of drained
\* results that carry its TTL, an entry for which none was drained is as
\* it was (as created, when the tick created it), and the sent counters
\* together have grown by the number of results delivered.
\* ------------------------------------------------------------------------
RECURSIVE MaxTtl(_)
MaxTtl(msgs) ==
    IF msgs = <<>> THEN 0
    ELSE LET m == MaxTtl(Tail(msgs))
         IN  IF Head(msgs).ttl > m THEN Head(msgs).ttl ELSE m

ResultFoldsIntoItsHop ==
    [][MtrDrainStep =>
         LET q == mtr_chan[mtr_rx]
         IN  /\ Len(mtr_hops') =
                    IF MaxTtl(q) > Len(mtr_hops) THEN MaxTtl(q) ELSE Len(mtr_hops)
             /\ \A k \in 1..Len(mtr_hops') :
                    /\ mtr_hops'[k].sent = HopBefore(k).sent + CountFor(q, k, FALSE)
                    /\ mtr_hops'[k].recv = HopBefore(k).recv + CountFor(q, k, TRUE)
                    /\ CountFor(q, k, FALSE) = 0 => mtr_hops'[k] = HopBefore(k)
             /\ TotalSent(mtr_hops') = TotalSent(mtr_hops) + Len(q)]_vars

\* hop 1 has folded one reply and hop 2 two results, the second of them a
\* sweep later: hop 1 still shows its one reply
SecondHopFoldedBesideFirst ==
    /\ mtr_rx # 0 /\ mtr_chan[mtr_rx] = <<>>
    /\ Len(mtr_hops) = 2
    /\ mtr_hops[1].sent = 1 /\ mtr_hops[1].recv = 1
    /\ mtr_hops[1].host = "router"
    /\ mtr_hops[2].sent = 2

\* ------------------------------------------------------------------------
\* C25: direction has three outcomes, and a frame that is neither to nor
\* from a bound local address (or is not IP at all) is indeterminate: the
\* outbound packet counter and the outbound byte counters count only
\* frames whose source is a bound local address.
\* ------------------------------------------------------------------------
FromLocalSource ==
    { f \in Frames : f.ether \in {"Ipv4", "Ipv6"} /\ f.ip_ok /\ f.src \in LocalIps }

OutboundOnlyFromLocalSource ==
    FramesAllCounted =>
        /\ sniffer.out_packets <= CountOf(snif_frames, FromLocalSource)
        /\ sniffer.wan_out_bytes + sniffer.lan_out_bytes
               <= BytesOf(snif_frames, FromLocalSource)

\* ------------------------------------------------------------------------
\* C26: the four byte counters are mutually exclusive per frame: while a
\* frame is processed its length is added to one of wan_in_bytes,
\* wan_out_bytes, lan_in_bytes and lan_out_bytes and the other three stay
\* as they are; for a frame to a local address or from one it is the
\* counter of that direction and of the LAN/WAN class of the far end.
\* No other step of the program changes a byte counter.
\* ------------------------------------------------------------------------
ByteCounterNames == {"wan_in_bytes", "wan_out_bytes", "lan_in_bytes", "lan_out_bytes"}

\* the byte counter a frame with a direction belongs to
SelectedByteCounter(f) ==
    IF FrameInbound(f)
    THEN IF FrameLan(f) THEN "lan_in_bytes" ELSE "wan_in_bytes"
    ELSE IF FrameLan(f) THEN "lan_out_bytes" ELSE "wan_out_bytes"

\* worker w passes from counting its frame to emitting it
SnifCountStep(w) ==
    /\ w \in DOMAIN snif_workers
    /\ snif_workers[w].pc = "count"
    /\ snif_workers'[w].pc = "emit"

ByteCountersExclusive ==
    [][\/ /\ \A k \in ByteCounterNames : sniffer'[k] = sniffer[k]
          /\ \A w \in DOMAIN snif_workers : ~SnifCountStep(w)
       \/ \E w \in DOMAIN snif_workers :
             /\ SnifCountStep(w)
             /\ \E k \in ByteCounterNames :
                   /\ sniffer'[k] = sniffer[k] + snif_workers[w].frame.len
                   /\ \A j \in ByteCounterNames \ {k} : sniffer'[j] = sniffer[j]
                   /\ (FrameInbound(snif_workers[w].frame)
                          \/ snif_workers[w].frame \in FromLocalSource)
                        => k = SelectedByteCounter(snif_workers[w].frame)]_vars

\* a frame from a host of the subnet to a local address has been counted:
\* its 74 bytes are in lan_in_bytes and in no other byte counter
LanFrameCountedOnce ==
    /\ Len(snif_frames) = 1
    /\ FrameInbound(snif_frames[1]) /\ FrameLan(snif_frames[1])
    /\ FramesAllCounted
    /\ sniffer.lan_in_bytes = snif_frames[1].len
    /\ sniffer.wan_in_bytes = 0
    /\ sniffer.wan_out_bytes = 0
    /\ sniffer.lan_out_bytes = 0

\* ------------------------------------------------------------------------
\* C27: when datalink::channel returns an error the capture worker hands
\* one summary with protocol "ERR" to its channel, returns, and does
\* nothing else: the step changes no counter, the worker never reads a
\* frame, and its channel never holds anything but that one summary.
\* ------------------------------------------------------------------------
SnifOpenFailed(w) == snif_workers[w].opened = "err"

\* the step in which worker w learns that the channel cannot be opened
SnifOpenFailsStep(w) ==
    /\ w \in DOMAIN snif_workers
    /\ snif_workers[w].opened = "no"
    /\ snif_workers'[w].opened = "err"

OpenFailureSendsOneError ==
    /\ [](\A w \in DOMAIN snif_workers :
             SnifOpenFailed(w) =>
                 /\ snif_workers[w].pc = "done"
                 /\ snif_workers[w].frame = NoFrame
                 /\ snif_chan[w] \in {<<>>, <<ErrorSummary>>}
                 /\ Len(snif_chan[w]) + snif_workers[w].failed_sends <= 1)
    /\ [][\A w \in DOMAIN snif_workers :
             /\ SnifOpenFailsStep(w) =>
                    /\ sniffer' = sniffer
                    /\ snif_frames' = snif_frames
                    /\ IF sniffer_rx = w
                       THEN snif_chan'[w] = Append(snif_chan[w], ErrorSummary)
                       ELSE snif_workers'[w].failed_sends = 1
             /\ SnifOpenFailed(w) =>
                    /\ snif_workers'[w] = snif_workers[w]
                    /\ snif_chan'[w] \in {snif_chan[w], <<>>}]_vars

\* the channel could not be opened: the worker has returned, the one ERR
\* summary has reached the packet log and every counter is zero
OpenFailureReported ==
    /\ sniffer_rx # 0
    /\ SnifOpenFailed(sniffer_rx)
    /\ snif_workers[sniffer_rx].pc = "done"
    /\ sniffer_packets = <<ErrorSummary>>
    /\ snif_chan[sniffer_rx] = <<>>
    /\ NineCounters = CountersOf(<<>>)

\* ------------------------------------------------------------------------
\* C28: no captured frame and no read error ends the capture loop: a
\* worker leaves the loop only at its top, when the stop flag is set, or
\* when a send fails; after a read error and after each frame it is back at
\* the top of the loop; and a frame that is not IP, is truncated or is
\* malformed is counted at most and never handed to the channel.
\* ------------------------------------------------------------------------
\* not IP, shorter than its headers, or with a transport header that does
\* not parse
UnparseableFrame(f) ==
    \/ f.ether \notin {"Ipv4", "Ipv6"}
    \/ ~f.ip_ok
    \/ f.ether = "Ipv4" /\ f.proto \in {"Tcp", "Udp", "Icmp"} /\ ~f.l4_ok

\* worker w is inside the body of its loop
SnifInLoopBody(w) == snif_workers[w].pc \in {"read", "classify", "count", "emit"}

CaptureLoopSurvivesFrames ==
    [][\A w \in DOMAIN snif_workers :
         /\ (SnifInLoopBody(w) /\ snif_workers'[w].pc = "done") =>
                snif_workers'[w].failed_sends > snif_workers[w].failed_sends
         /\ (snif_workers[w].pc = "emit" /\ UnparseableFrame(snif_workers[w].frame)) =>
                /\ snif_workers'[w].pc \in {"emit", "poll"}
                /\ snif_chan'[w] \in {snif_chan[w], <<>>}]_vars

\* ------------------------------------------------------------------------
\* C29: the packet log keeps the order of the channel and is bounded: it
\* never holds more than 1000 summaries, a tick appends what it drains in
\* channel order and evicts from the front, and the log is always the last
\* min(n, 1000) of the n summaries received so far, in the order in which
\* the capture worker sent them.
\* ------------------------------------------------------------------------
\* the summaries of the frames captured so far, in capture order; the
\* session's filter is empty and every frame of the stream parses, so each
\* is sent
SummariesSent ==
    LET emitted == IF \E w \in DOMAIN snif_workers :
                         snif_workers[w].pc \in {"classify", "count", "emit"}
                   THEN Len(snif_frames) - 1 ELSE Len(snif_frames)
    IN  [n \in 1..emitted |-> CHOOSE sm \in ParsePacket(snif_frames[n]) : TRUE]

\* those of them the App has received
SummariesReceived ==
    SubSeq(SummariesSent, 1, Len(SummariesSent) - Len(snif_chan[sniffer_rx]))

PacketLogKeepsNewest ==
    /\ [](Len(sniffer_packets) <= SNIFFER_LOG_CAP)
    /\ [](sniffer_packets = LastN(SummariesReceived, 1000))
    /\ [](SummariesSent = SummariesReceived \o snif_chan[sniffer_rx])
    /\ [][sniffer_packets' # sniffer_packets =>
             KeepsNewest(sniffer_packets, sniffer_packets',
                         snif_chan[sniffer_rx], 1000)]_vars

\* 1002 summaries have been received: the log holds the 1000 newest, the
\* first of them the summary of segment 3
PacketLogEvicted ==
    /\ Len(snif_frames) = 1002
    /\ snif_chan[sniffer_rx] = <<>>
    /\ Len(SummariesReceived) = 1002
    /\ Len(sniffer_packets) = 1000
    /\ sniffer_packets[1] = SummariesReceived[3]
    /\ sniffer_packets[1000] = SummariesReceived[1002]
    /\ sniffer_packets[1] # sniffer_packets[2]

\* ------------------------------------------------------------------------
\* C30: a DNS lookup delivers once: at most one result of a lookup is ever
\* stored into dns_result, the tick that stores a result stores the one of
\* the lookup whose receiver it holds and sets dns_rx to None, and while a
\* result is shown there is no receiver for a later tick to poll.
\* ------------------------------------------------------------------------
DnsDeliveryStep == dns'.result # dns.result /\ dns'.result.lookup # 0

DnsDeliversOnce ==
    /\ [](\A w \in DOMAIN dns.stored : dns.stored[w] <= 1)
    /\ [](dns.result.lookup # 0 => dns.rx = 0)
    /\ [][DnsDeliveryStep =>
             /\ dns.rx # 0
             /\ dns'.result.lookup = dns.rx
             /\ dns'.rx = 0
             /\ dns'.stored[dns.rx] = 1]_vars
    /\ [][dns.rx = 0 => (dns'.result = dns.result \/ dns'.rx # 0)]_vars

\* the second lookup was started while the first was under way; both tasks
\* have finished, the answer to the second is shown and the receiver is gone
SecondLookupDelivered ==
    /\ Len(dns.tasks) = 2
    /\ dns.tasks = <<"done", "done">>
    /\ dns.stored = <<0, 1>>
    /\ dns.result.lookup = 2
    /\ dns.rx = 0

\* ------------------------------------------------------------------------
\* C31: a snapshot replaces the connection map: after the tick that
\* processes it the keys of active_connections are exactly the remote
\* addresses of the snapshot that parse and are neither loopback nor
\* unspecified, so an address of the previous map that the snapshot does
\* not list is gone.
\* ------------------------------------------------------------------------
\* a tick takes a snapshot from the channel
ConnDrainStep ==
    /\ connections_rx # 0 /\ connections_rx' # 0
    /\ conn_chan # <<>>
    /\ conn_chan' = Tail(conn_chan)

\* the addresses a snapshot stands for
SnapshotAddresses(snap) == UNION { RemoteIp(snap[i]) : i \in 1..Len(snap) }

\* what the snapshots of the model list, address by address
SnapshotsReadRight ==
    \A snap \in Snapshots :
        /\ SnapshotAddresses(snap) \subseteq
               {V4(8, 8, 8, 8), V4(1, 1, 1, 1), V4(9, 9, 9, 9)}
        /\ Len(snap) = 3 =>
               (V4(8, 8, 8, 8) \in SnapshotAddresses(snap)
                    <=> V4(9, 9, 9, 9) \notin SnapshotAddresses(snap))
        /\ snap = <<>> => SnapshotAddresses(snap) = {}

SnapshotReplacesMap ==
    [][ConnDrainStep =>
          /\ SnapshotsReadRight
          /\ DOMAIN active_connections' = SnapshotAddresses(Head(conn_chan))
          /\ \A ip \in DOMAIN active_connections' :
                active_connections'[ip].remote_ip = ip]_vars

\* 8.8.8.8 was in the map after the first snapshot and is not in it after
\* the second, which lists 1.1.1.1 and 9.9.9.9
StaleAddressDropped ==
    /\ geoip_reader
    /\ conn_snapshots = 2 /\ conn_chan = <<>>
    /\ geo_lookups # <<>> /\ geo_lookups[1] = V4(8, 8, 8, 8)
    /\ DOMAIN active_connections = {V4(1, 1, 1, 1), V4(9, 9, 9, 9)}

\* ------------------------------------------------------------------------
\* C32: while one snapshot is processed lookup_info is called at most once
\* for each remote address, also when the snapshot lists several
\* connections to that address.
\* ------------------------------------------------------------------------
\* the lookups the tick has added
NewLookups == SubSeq(geo_lookups', Len(geo_lookups) + 1, Len(geo_lookups'))

OneLookupPerAddress ==
    [][ConnDrainStep =>
          \A i, j \in 1..Len(NewLookups) :
              NewLookups[i] = NewLookups[j] => i = j]_vars

\* ------------------------------------------------------------------------
\* C33: the hop table of a session folds only results of the worker that
\* the most recent start_mtr started: only that worker adds to the channel
\* the App holds, a step of any other worker (one of an earlier session
\* that is still running included) changes neither that channel nor
\* mtr_hops, nothing is ever queued for a receiver that was dropped, and
\* mtr_hops changes only by a tick folding the channel the App holds or by
\* the clear of a start.
\* ------------------------------------------------------------------------
\* worker w takes a step
MtrWorkerActs(w) == w \in DOMAIN mtr_workers /\ mtr_workers'[w] # mtr_workers[w]

SessionFoldsOwnResults ==
    /\ [](\A w \in DOMAIN mtr_chan : w # mtr_rx => mtr_chan[w] = <<>>)
    /\ [][\A w \in DOMAIN mtr_workers :
             (MtrWorkerActs(w) /\ w # mtr_rx) =>
                 (mtr_hops' = mtr_hops /\ mtr_chan' = mtr_chan)]_vars
    /\ [][(mtr_rx' = mtr_rx /\ mtr_rx # 0
             /\ Len(mtr_chan'[mtr_rx]) > Len(mtr_chan[mtr_rx])) =>
                 /\ MtrWorkerActs(mtr_rx)
                 /\ Len(mtr_workers'[mtr_rx].sweep) = Len(mtr_workers[mtr_rx].sweep) + 1]_vars
    /\ [][mtr_hops' # mtr_hops =>
             \/ MtrSessionStarts /\ mtr_hops' = <<>>
             \/ /\ MtrDrainStep
                /\ TotalSent(mtr_hops') = TotalSent(mtr_hops) + Len(mtr_chan[mtr_rx])]_vars

\* the worker of the first session has gone on to produce a result after
\* the restart, and the table of the second session holds the one result
\* of its own worker
EarlierWorkerIgnored ==
    /\ Len(mtr_workers) = 2 /\ mtr_rx = 2
    /\ mtr_workers[1].failed_sends >= 1
    /\ mtr_workers[2].sweep # <<>>
    /\ mtr_chan[2] = <<>>
    /\ TotalSent(mtr_hops) = 1

\* ------------------------------------------------------------------------
\* C34: for every hop that has folded a reply, best <= avg <= worst and
\* best <= last <= worst, whatever the results and although the running
\* average is cut to whole milliseconds at every step.
\* ------------------------------------------------------------------------
HopStatsOrdered ==
    \A i \in 1..Len(mtr_hops) :
        LET h == mtr_hops[i]
        IN  h.recv >= 1 =>
              /\ h.best <= h.avg /\ h.avg <= h.worst
              /\ h.best <= h.last /\ h.last <= h.worst
              /\ h.best < BEST_INIT

\* replies of 10, 20 and 20 ms: the average of 16.67 ms is kept as 16,
\* strictly between best and worst
TruncatedAverageInside ==
    \E i \in 1..Len(mtr_hops) :
        /\ mtr_hops[i].history = <<10, 20, 20>>
        /\ mtr_hops[i].avg = 16
        /\ mtr_hops[i].best = 10 /\ mtr_hops[i].worst = 20

\* ------------------------------------------------------------------------
\* C35: the packet counters stay consistent for a reader that looks at
\* them at any moment: with one capture worker,
\* in_packets + out_packets <= packet_count <= in_packets + out_packets + 1
\* in every state, and in_packets + out_packets = packet_count whenever the
\* worker is between frames (at the top of its loop, waiting for a frame,
\* or returned from the loop).
\* ------------------------------------------------------------------------
DirectionCount == sniffer.in_packets + sniffer.out_packets

\* worker w is not processing a frame: it is at the top of the loop or in
\* rx.next(), or it has left the loop by a break
SnifBetweenFrames(w) ==
    \/ snif_workers[w].pc \in {"poll", "read"}
    \/ snif_workers[w].pc = "done" /\ snif_workers[w].frame.ether # "Runt"

RECURSIVE SampleSum(_)
SampleSum(samples) ==
    IF samples = <<>> THEN 0 ELSE Head(samples) + SampleSum(Tail(samples))

\* a tick that changed a rate history or a remembered counter value
RateTickStep == rateVars' # rateVars

TickSamplesExact ==
    RateTickStep =>
        /\ last_packet_count' = sniffer.packet_count
        /\ last_rx_count' = sniffer.in_packets
        /\ last_tx_count' = sniffer.out_packets
        /\ traffic_history'[Len(traffic_history')] =
              sniffer.packet_count - last_packet_count
        /\ rx_history'[Len(rx_history')] = sniffer.in_packets - last_rx_count
        /\ tx_history'[Len(tx_history')] = sniffer.out_packets - last_tx_count

\* the samples pushed since the first state add up to what the counters
\* have grown by between the first state and the last tick's read
SamplesTelescope ==
    /\ SampleSum(traffic_history) = last_packet_count - LogCaptured
    /\ SampleSum(rx_history) = last_rx_count - LogCaptured
    /\ SampleSum(tx_history) = last_tx_count
    /\ last_packet_count <= sniffer.packet_count
    /\ last_rx_count <= sniffer.in_packets
    /\ last_tx_count <= sniffer.out_packets

RateSamplesAccount == [](SamplesTelescope) /\ [][TickSamplesExact]_vars

\* two ticks have pushed non-zero samples: one frame, then two frames
TwoSamplesAddUp ==
    /\ traffic_history[HISTORY_CAP - 1] = 1
    /\ traffic_history[HISTORY_CAP] = 2
    /\ last_packet_count = LogCaptured + 3

NewestOf(seq, n) ==
    IF Len(seq) <= n THEN seq ELSE SubSeq(seq, Len(seq) - n + 1, Len(seq))

\* results follow each other in the order the loop sent them
InSendOrder(results) ==
    \A n \in 1..(Len(results) - 1) :
        results[n].ok /\ results[n + 1].ok =>
            results[n + 1].seq = (results[n].seq + 1) % SEQ_MODULUS

\* the tick loop sees the disconnection in this step (the user has no key
\* to stop a ping in SpecCount)
TickSeesPingEnd == ping_rx # 0 /\ ping_rx' = 0

\* what the session of the receiver has sent is, in order, what was
\* received followed by what is queued
PingResultsKept ==
    ping_rx # 0 =>
        LET wk == ping_workers[ping_rx]
            all == ping_history \o ping_chan[ping_rx]
        IN  /\ InSendOrder(all)
            /\ wk.host = "good" =>
                  /\ Len(all) >= Min2(wk.sent, PING_LOG_CAP)
                  /\ wk.sent > 0 =>
                        all[Len(all)].seq = (wk.seq + SEQ_MODULUS - 1) % SEQ_MODULUS
            /\ wk.host # "good" /\ wk.pc = "done" =>
                  all = <<PingErr(IF wk.host = "" THEN "No target provided"
                                  ELSE "Could not resolve")>>

\* after the tick that saw the end of the newest ping, the flag is down and
\* the log ends with the last result sent
PingEndRecorded ==
    ping_rx = 0 /\ UserPings # {} =>
        LET wk == ping_workers[Len(ping_workers)]
        IN  /\ ~is_pinging
            /\ wk.pc = "done" /\ wk.failed_sends = 0
            /\ ping_chan[Len(ping_workers)] = <<>>
            /\ InSendOrder(ping_history)
            /\ Len(ping_history) >= 1
            /\ wk.host = "good" =>
                  /\ Len(ping_history) = Min2(wk.sent, PING_LOG_CAP)
                  /\ ping_history[Len(ping_history)].seq =
                        (wk.seq + SEQ_MODULUS - 1) % SEQ_MODULUS

PingEndStep ==
    TickSeesPingEnd =>
        /\ ping_workers[ping_rx].pc = "done"
        /\ ~is_pinging'
        /\ ping_history' =
              NewestOf(ping_history \o ping_chan[ping_rx], PING_LOG_CAP)

PingEndLosesNothing ==
    /\ [](PingResultsKept /\ PingEndRecorded)
    /\ [][PingEndStep]_vars

\* a second ping runs after a ping with "-c 2" ended by itself and both of
\* its results were logged by the tick that saw the end
SecondPingAccepted ==
    /\ Len(ping_workers) = 2
    /\ ping_workers[1].count = {2} /\ ping_workers[1].sent = 2
    /\ ping_workers[1].pc = "done" /\ ping_workers[1].failed_sends = 0
    /\ is_pinging /\ ping_rx = 2
    /\ ping_workers[2].sent = 1

\* ------------------------------------------------------------------------
\* C39: the ping count limit.  For every count c given with "-c c", 0 and
\* values above 65535 included, the ping task whose receiver stays alive
\* sends exactly c results and then ends: it never has sent more than c,
\* it has ended once it has sent c, and it has sent c when it has ended.
\* ------------------------------------------------------------------------
PingCountRespected ==
    \A w \in UserPings :
        LET wk == ping_workers[w]
        IN  \A c \in wk.count :
              wk.host = "good" /\ wk.failed_sends = 0 =>
                  /\ wk.sent <= c
                  /\ wk.sent = c /\ wk.pc # "parse" => wk.pc = "done"
                  /\ wk.pc = "done" => wk.sent = c

\* the part of the above for the counts from 1 to 65535
PingCountRespectedInRange ==
    \A w \in UserPings :
        LET wk == ping_workers[w]
        IN  \A c \in wk.count :
              wk.host = "good" /\ wk.failed_sends = 0 /\ c \in 1..(SEQ_MODULUS - 1) =>
                  /\ wk.sent <= c
                  /\ wk.sent = c /\ wk.pc # "parse" => wk.pc = "done"
                  /\ wk.pc = "done" => wk.sent = c

\* the same, for the counts above 0
PingCountRespectedAboveZero ==
    \A w \in UserPings :
        LET wk == ping_workers[w]
        IN  \A c \in wk.count :
              wk.host = "good" /\ wk.failed_sends = 0 /\ c > 0 =>
                  /\ wk.sent <= c
                  /\ wk.sent = c /\ wk.pc # "parse" => wk.pc = "done"
                  /\ wk.pc = "done" => wk.sent = c

\* ------------------------------------------------------------------------
\* C40: DNS result freshness: whatever the order of lookups started,
\* resolutions completed and ticks, a result stored in dns_result belongs
\* to the lookup started last; the result of a superseded lookup is never
\* stored once a newer lookup has been started.
\* ------------------------------------------------------------------------
LatestLookup == Len(dns.tasks)

DnsResultFresh ==
    /\ [](dns.result.lookup # 0 => dns.result.lookup = LatestLookup)
    /\ [](\A w \in DOMAIN dns.chan :
             dns.chan[w] # <<>> => w = LatestLookup /\ dns.rx = w)
    /\ [][\A w \in DOMAIN dns.stored :
             dns'.stored[w] # dns.stored[w] => w = LatestLookup]_vars

\* the first answer was shown, the second lookup was superseded by the
\* third before a tick stored its answer, and the third answer is shown
SupersededLookupNeverShown ==
    /\ dns.tasks = <<"done", "done", "done">>
    /\ dns.stored = <<1, 0, 1>>
    /\ dns.result.lookup = 3


====
